---- MODULE Spec2Model ----
(***************************************************************************)
(* A model of the object-transfer engine of libtsuba (s3.cpp) and of the   *)
(* operation groups declared in ReadGroup.h.                               *)
(*                                                                         *)
(* The three buffer-size constants are scaled by 2^-20: MB(x) is x and     *)
(* GB(x) is 1024 x, so that the largest sizes SegmentBuf distinguishes     *)
(* stay inside TLC's integers.  Every expression of the code is kept as    *)
(* it is written; a size n of the model is the size n * 2^20 of the        *)
(* program wherever only the constants' multiples matter.                  *)
(***************************************************************************)
EXTENDS Integers, Sequences, FiniteSets, TLC

(***************************************************************************)
(* Program constants, s3.cpp:49-54.                                        *)
(***************************************************************************)
\* MB(5)
kS3MinBufSize == 5
\* MB(8)
kS3DefaultBufSize == 8
\* GB(5)
kS3MaxBufSize == 5120
kS3MaxMultiPart == 10000
kS3MaxDelete == 995

(***************************************************************************)
(* Bounds of the model.                                                    *)
(***************************************************************************)
\* the small ranges start at 0..MaxStart and have sizes 0..MaxSize
MaxStart == 2
MaxSize == 40
\* the sizes around the part-count limit: (kS3MaxMultiPart + 1) segments
\* of the default size, -1 .. +MaxDelta
MaxDelta == 9
\* a semaphore on its own: goals 0..MaxGoal, up to MaxGoal + MaxExtra
\* decrements
MaxGoal == 5
MaxExtra == 2
\* an operation group: up to MaxOps operations, values 1..MaxVal
MaxOps == 3
MaxVal == 2
\* a put has a size 0..MaxPutSize
MaxPutSize == 24
\* a get has a range that starts at 0..MaxStart, of a size 0..MaxGetSize
MaxGetSize == 24
\* a delete has 0..MaxKeys keys, or one key less, as many or one more than
\* 1..MaxBatches full batches
MaxKeys == 4
MaxBatches == 3
\* a listing has up to MaxPages pages
MaxPages == 3
\* up to MaxLibCalls calls of public operations are followed
MaxLibCalls == 2
\* the hosts have the communicator IDs 0..MaxHost
MaxHost == 2
\* the versions of an Update are 0..MaxVersion
MaxVersion == 1
\* up to MaxNsCalls calls of the name-server client are followed
MaxNsCalls == 3

VARIABLES
    seg_start,      \* SegmentBuf: the start argument of the last call
    seg_size,       \* SegmentBuf: the size argument of the last call
    seg_res,        \* SegmentBuf: what the last call produced
    cs,             \* a CountingSemaphore used on its own
    cs_calls,       \* GoalMinusOne calls made on cs since its goal was set
    cs_pc,          \* where the thread waiting on cs is
    og_ops,         \* ReadGroup: the queue of tracked operations
    og_n,           \* ReadGroup: operations registered so far
    og_fut,         \* per operation: its future, pending or resolved
    og_order,       \* the labels in the order their futures resolved
    og_cont,        \* per operation: what its continuation returns
    og_ret,         \* per operation: AddReturnsOp's ret_val storage
    og_ran,         \* the continuations run so far, in order, with their
                    \* argument
    og_pc,          \* where the caller of the group is
    og_err,         \* Finish: the error remembered so far
    og_result,      \* what Finish returned
    put,            \* one put, S3UploadOverwrite or S3PutAsync: the
                    \* caller's position, the upload session and the
                    \* requests sent to the remote store
    get,            \* one get, S3DownloadRange, S3GetMultiAsync or
                    \* S3GetAsync: the caller's position, the parts and
                    \* the requests sent to the remote store
    del,            \* one S3Delete: the caller's position, the loop's
                    \* variables and the batches sent to the remote store
    lst,            \* one S3ListAsync: the future's position, the
                    \* caller's set, the requests sent and the pages the
                    \* remote store returned
    head,           \* one S3GetSize: the caller's position, the request
                    \* sent, the remote store's answer and what the call
                    \* gave back
    lib,            \* the library's statics library_init and
                    \* async_s3_client, and how each call of a public
                    \* operation began
    ns              \* HttpNameServerClient: the calls of Create and Update
                    \* made on the hosts and what each did

segVars == <<seg_start, seg_size, seg_res>>
csVars == <<cs, cs_calls, cs_pc>>
ogVars == <<og_ops, og_n, og_fut, og_order, og_cont, og_ret, og_ran, og_pc, og_err,
            og_result>>
vars == <<segVars, csVars, ogVars, put, get, del, lst, head, lib, ns>>

\* what the actions of one component leave alone
notSeg == <<csVars, ogVars, put, get, del, lst, head, lib, ns>>
notCs == <<segVars, ogVars, put, get, del, lst, head, lib, ns>>
notOg == <<segVars, csVars, put, get, del, lst, head, lib, ns>>
notPut == <<segVars, csVars, ogVars, get, del, lst, head, lib, ns>>
notGet == <<segVars, csVars, ogVars, put, del, lst, head, lib, ns>>
notDel == <<segVars, csVars, ogVars, put, get, lst, head, lib, ns>>
notLst == <<segVars, csVars, ogVars, put, get, del, head, lib, ns>>
notPutHead == <<segVars, csVars, ogVars, get, del, lst, lib, ns>>
notLib == <<segVars, csVars, ogVars, put, get, del, lst, head, ns>>
notNs == <<segVars, csVars, ogVars, put, get, del, lst, head, lib>>

(***************************************************************************)
(* Sizes and offsets are counted in units of 2^20 bytes.  The one byte     *)
(* count of the code that is not a whole number of units is the segment    *)
(* size SegmentBuf computes for a size beyond the part-count limit; it is  *)
(* kept as whole units and the bytes beyond them (0 .. 2^20 - 1), and so   *)
(* are the offsets of the parts of its view.                               *)
(***************************************************************************)
\* i times the byte count units * 2^20 + bytes, as whole units and bytes
\* beyond them; the product is formed in digits of 2^10 to stay within 32
\* bits
Times(i, units, bytes) ==
    LET lo == i * (bytes % 1024)
        mid == i * (bytes \div 1024) + lo \div 1024
    IN  [units |-> i * units + mid \div 1024,
         bytes |-> (mid % 1024) * 1024 + (lo % 1024)]

(***************************************************************************)
(* SegmentedBufferView (SegmentedBufferView.h is not among the sources):   *)
(* a view of the range [start, start + bytes) cut into segments of         *)
(* segment_size units and segment_rem bytes, the last one holding the      *)
(* remainder.  A zero-length range has no segment.                         *)
(***************************************************************************)
SegmentedBufferView(start, bytes, segment_size, segment_rem) ==
    [start |-> start, total |-> bytes, seg_size |-> segment_size,
     seg_rem |-> segment_rem,
     num_segments |->
         IF bytes = 0 THEN 0
         ELSE IF segment_rem = 0
         THEN (bytes + segment_size - 1) \div segment_size
         ELSE CHOOSE n \in (bytes \div (segment_size + 1))
                               .. (bytes \div segment_size + 1) :
                  /\ Times(n, segment_size, segment_rem).units >= bytes
                  /\ Times(n - 1, segment_size, segment_rem).units < bytes]

NumSegments(view) == view.num_segments

\* The i-th part (0-based) of a view: absolute offsets [start, end) and the
\* part's place in the caller's buffer, as an offset from the buffer's
\* start; each in whole units, with its bytes beyond them in the _rem field
BufPart(view, i) ==
    LET from == Times(i, view.seg_size, view.seg_rem)
        to == Times(i + 1, view.seg_size, view.seg_rem)
        last == to.units >= view.total
    IN  [start |-> view.start + from.units,
         start_rem |-> from.bytes,
         end   |-> IF last THEN view.start + view.total
                   ELSE view.start + to.units,
         end_rem |-> IF last THEN 0 ELSE to.bytes,
         dest  |-> from.units,
         dest_rem |-> from.bytes]

\* std::vector<BufPart>(bufView.begin(), bufView.end())
Parts(view) == [i \in 1..NumSegments(view) |-> BufPart(view, i - 1)]

(***************************************************************************)
(* SegmentBuf, s3.cpp:175-190.                                             *)
(***************************************************************************)
\* the whole units of the segment size SegmentBuf settles on: the quotient
\* of the bytes by kS3MaxMultiPart + 1 has the whole units of the quotient
\* of the units
SegmentSize(size) ==
    IF (size \div kS3DefaultBufSize) > kS3MaxMultiPart
    THEN size \div (kS3MaxMultiPart + 1)
    ELSE kS3DefaultBufSize

\* the bytes of that segment size beyond its whole units: the remainder of
\* the units, times 2^20, divided by kS3MaxMultiPart + 1 in two steps of
\* 2^10
SegmentRem(size) ==
    IF (size \div kS3DefaultBufSize) > kS3MaxMultiPart
    THEN LET x == (size % (kS3MaxMultiPart + 1)) * 1024
             y == (x % (kS3MaxMultiPart + 1)) * 1024
         IN  (x \div (kS3MaxMultiPart + 1)) * 1024
                 + y \div (kS3MaxMultiPart + 1)
    ELSE 0

\* GALOIS_LOG_VASSERT on the adjusted segment size
SegmentAssertFails(size) ==
    /\ (size \div kS3DefaultBufSize) > kS3MaxMultiPart
    /\ ~(/\ \/ SegmentSize(size) > kS3MinBufSize
            \/ SegmentSize(size) = kS3MinBufSize /\ SegmentRem(size) > 0
         /\ SegmentSize(size) < kS3MaxBufSize)

NoView == SegmentedBufferView(0, 0, kS3DefaultBufSize, 0)

\* SegmentBuf with a hidden state: it keeps the view of the last call made
\* on its own and gives it again to a call of the same size, whatever the
\* start of that call
SegmentBuf_keepsLastView(start, size) ==
    IF seg_res.status = "ok" /\ seg_size = size
    THEN seg_res
    ELSE IF SegmentAssertFails(size)
    THEN [status |-> "assert_failed", view |-> NoView]
    ELSE [status |-> "ok",
          view |-> SegmentedBufferView(start, size, SegmentSize(size),
                                       SegmentRem(size))]

\* SegmentBuf that views the buffer from offset 0 whatever the range's start
SegmentBuf_dropsStart(start, size) ==
    IF SegmentAssertFails(size)
    THEN [status |-> "assert_failed", view |-> NoView]
    ELSE [status |-> "ok",
          view |-> SegmentedBufferView(0, size, SegmentSize(size),
                                       SegmentRem(size))]

SegmentBuf(start, size) ==
    IF SegmentAssertFails(size)
    THEN [status |-> "assert_failed", view |-> NoView]
    ELSE [status |-> "ok",
          view |-> SegmentedBufferView(start, size, SegmentSize(size),
                                       SegmentRem(size))]

(***************************************************************************)
(* CountingSemaphore (s3_internal.h is not among the sources): a goal, the *)
(* count remaining, and a mutex and condition under which one waiter       *)
(* parks.  Every operation runs under the mutex, so it is one step; the    *)
(* waiter's check and its parking are one step too, as the condition       *)
(* variable releases the mutex only once the waiter is parked.             *)
(*   waiter: "none", "parked" (blocked on the condition) or "notified"     *)
(*           (woken, about to check again)                                 *)
(*   fatal:  the semaphore detected a programming error and aborted        *)
(***************************************************************************)
NewSemaphore ==
    [goal |-> 0, remaining |-> 0, waiter |-> "none", fatal |-> FALSE]

\* SetGoal that takes the new goal whatever the state of the last cycle
SetGoal_always(s, n) ==
    [s EXCEPT !.goal = n, !.remaining = n,
              !.waiter = IF n = 0 /\ @ = "parked" THEN "notified" ELSE @]

\* SetGoal that leaves a waiter asleep when the goal is 0
SetGoal_leavesWaiter(s, n) ==
    IF s.remaining # 0 /\ s.remaining # s.goal
    THEN [s EXCEPT !.fatal = TRUE]
    ELSE [s EXCEPT !.goal = n, !.remaining = n]

\* SetGoal(n): refused while a previous cycle is unfinished; a goal of 0
\* leaves nothing to wait for, so a waiter is woken
SetGoal(s, n) ==
    IF s.remaining # 0 /\ s.remaining # s.goal
    THEN [s EXCEPT !.fatal = TRUE]
    ELSE [s EXCEPT !.goal = n, !.remaining = n,
                   !.waiter = IF n = 0 /\ @ = "parked" THEN "notified"
                              ELSE @]

\* GoalMinusOne that stops at zero without a word
GoalMinusOne_clamps(s) ==
    IF s.remaining <= 0
    THEN s
    ELSE [s EXCEPT !.remaining = @ - 1,
                   !.waiter = IF @ = "parked" THEN "notified" ELSE @]

\* GoalMinusOne(): one less to go, and the waiter is woken; a decrement past
\* zero is fatal
GoalMinusOne(s) ==
    IF s.remaining <= 0
    THEN [s EXCEPT !.fatal = TRUE]
    ELSE [s EXCEPT !.remaining = @ - 1,
                   !.waiter = IF @ = "parked" THEN "notified" ELSE @]

\* a check that also blocks while no goal is set
WaitGoalBlocks_withoutGoal(s) == s.remaining > 0 \/ s.goal = 0

\* WaitGoal(), the check under the mutex: TRUE when the caller has to block
WaitGoalBlocks(s) == s.remaining > 0

\* WaitGoal(), one check: the caller parks or goes on
WaitGoal(s) ==
    [s EXCEPT !.waiter = IF WaitGoalBlocks(s) THEN "parked" ELSE "none"]

(***************************************************************************)
(* Operation groups.  ReadGroup (ReadGroup.h) forwards to an AsyncOpGroup, *)
(* which is not among the sources; AddReturnsOp is.                        *)
(* An operation is known by its label 1..MaxOps, the order of              *)
(* registration.  A future is "pending" until the remote work resolves it  *)
(* to a success (with a value, for AddReturnsOp) or to an error; an error  *)
(* value names where it arose and for which operation.                     *)
(***************************************************************************)
Labels == 1..MaxOps
NoError == [kind |-> "none", op |-> 0]
FutureError(l) == [kind |-> "future", op |-> l]
CompleteError(l) == [kind |-> "on_complete", op |-> l]
\* RetType's default-constructed value
DefaultVal == 0
NoArg == -1

\* AsyncOpGroup::AddOp that puts the newest operation first
Enqueue_front(queue, op) == <<op>> \o queue

\* AsyncOpGroup::AddOp: the operation joins the queue at its tail
Enqueue(queue, op) == Append(queue, op)

\* the result of get() on a tracked future that has resolved.  For
\* AddReturnsOp the tracked future is the deferred wrapper of
\* ReadGroup.h:151-161, which runs inside get(): it passes an error on and
\* turns a value into success.
FutureGet(l) ==
    IF og_fut[l].state = "err" THEN FutureError(l) ELSE NoError

\* the wrapper's side effect on ret_val, ReadGroup.h:155-160
RetValAfterGet(op) ==
    IF op.returns /\ og_fut[op.label].state = "ok"
    THEN og_fut[op.label].value
    ELSE og_ret[op.label]

\* a continuation that is handed the value ret_val had at registration
ContinuationArg_atRegistration(op) ==
    IF op.returns THEN DefaultVal ELSE NoArg

\* the argument the continuation is called with: none for AddOp, *ret_val
\* for AddReturnsOp (generic_complete_fn, ReadGroup.h:163-166)
ContinuationArg(op) ==
    IF op.returns THEN RetValAfterGet(op) ELSE NoArg

\* a drain that skips the continuation of a failed operation
RunsContinuation_onSuccess(res) == res = NoError

\* whether the drain invokes the continuation of an entry whose future
\* gave res: it always does
RunsContinuation(res) == res \in {NoError} \cup {FutureError(l) : l \in Labels}

\* the error of one drained entry: the future's, else the continuation's
EntryError(op, res) ==
    IF res # NoError THEN res
    ELSE IF og_cont[op.label] = "err" THEN CompleteError(op.label)
    ELSE NoError

\* a drain that remembers the latest error
Remember_last(prev, err) == IF err = NoError THEN prev ELSE err

\* the error Finish remembers: the first one it meets
Remember(prev, err) == IF prev = NoError THEN err ELSE prev

\* a Finish that reports success whatever it met
FinishResult_success(err) == NoError

\* what Finish returns once the queue is drained
FinishResult(err) == err

(***************************************************************************)
(* The remote store, seen from the client: a call ends with an outcome,    *)
(* success, the permanent-redirect response or another error.              *)
(***************************************************************************)
Outcomes == {"ok", "moved", "error"}

\* CheckS3Error that knows one kind of failure only
CheckS3Error_oneKind(outcome) ==
    IF outcome = "ok" THEN "ok" ELSE "S3Error"

\* CheckS3Error, s3.cpp:161-173
CheckS3Error(outcome) ==
    IF outcome = "ok" THEN "ok"
    ELSE IF outcome = "moved" THEN "AWSWrongRegion"
    ELSE "S3Error"

\* the answers to HeadObject: the object may also be missing
HeadOutcomes == Outcomes \cup {"not_found"}

\* the upload id a CreateMultipartUpload response carries, and the tag an
\* UploadPart response carries for a part number; the empty string is <<>>
UploadId == <<"upload-id">>
ETag(part_number) == <<"etag", part_number>>
EmptyString == <<>>

\* a request as the remote store receives it
Request(api, part_number, length, dest, upload_id, parts) ==
    [api |-> api, part_number |-> part_number, length |-> length,
     dest |-> dest, upload_id |-> upload_id, parts |-> parts]

\* a PutObject that carries no body
PutObjectRequest_noBody(size) ==
    Request("PutObject", 0, 0, 0, EmptyString, <<>>)

PutObjectRequest(size) ==
    Request("PutObject", 0, size, 0, EmptyString, <<>>)

\* S3GetSize's request, s3.cpp:226-229
HeadObjectRequest == [api |-> "HeadObject"]

CreateMultipartUploadRequest ==
    Request("CreateMultipartUpload", 0, 0, 0, EmptyString, <<>>)

\* an upload loop that numbers the parts from 0
SyncUploadPartRequest_fromZero(i, part, upload_id) ==
    Request("UploadPart", i, part.end - part.start, part.dest, upload_id,
            <<>>)

\* the UploadPartRequest of S3UploadOverwrite's loop, s3.cpp:340-355, for
\* parts[i], i counted from 0
SyncUploadPartRequest(i, part, upload_id) ==
    Request("UploadPart", i + 1, part.end - part.start, part.dest, upload_id,
            <<>>)

\* an upload loop that numbers the parts from 0
AsyncUploadPartRequest_fromZero(i, part, upload_id) ==
    Request("UploadPart", i, part.end - part.start, part.dest, upload_id,
            <<>>)

\* the UploadPartRequest of S3PutMultiAsync2's loop, s3.cpp:482-497
AsyncUploadPartRequest(i, part, upload_id) ==
    Request("UploadPart", i + 1, part.end - part.start, part.dest, upload_id,
            <<>>)

\* a manifest that lists the parts from the last to the first
CompletedUpload_descending(part_e_tags) ==
    [k \in 1..Len(part_e_tags) |->
        [part_number |-> Len(part_e_tags) + 1 - k,
         etag |-> part_e_tags[Len(part_e_tags) + 1 - k]]]

\* the CompletedMultipartUpload built from the tags, s3.cpp:394-399 and
\* 535-541: entry i + 1 is part number i + 1 with part_e_tags[i]
CompletedUpload(part_e_tags) ==
    [k \in 1..Len(part_e_tags) |-> [part_number |-> k, etag |-> part_e_tags[k]]]

CompleteMultipartUploadRequest(upload_id, part_e_tags) ==
    Request("CompleteMultipartUpload", 0, 0, 0, upload_id,
            CompletedUpload(part_e_tags))

\* std::vector<std::string>(n): n empty strings
EmptyTags(n) == [k \in 1..n |-> EmptyString]

\* a request whose range ends at the part's exclusive end
PrepareObjectRequest_exclusiveEnd(api, part) ==
    [api |-> api, first |-> part.start, last |-> part.end,
     dest |-> part.dest, buflen |-> part.end - part.start + 1]

\* PrepareObjectRequest, s3.cpp:659-679: the request for one part asks for
\* the bytes first..last, both included, and is given a window of buflen
\* bytes at dest in the caller's buffer
PrepareObjectRequest(api, part) ==
    [api |-> api, first |-> part.start, last |-> part.end - 1,
     dest |-> part.dest, buflen |-> part.end - part.start + 1]

(***************************************************************************)
(* S3Delete, s3.cpp:890-925, and S3SendDelete, s3.cpp:865-888.  The files  *)
(* of the set are 1, 2, ... in the order the loop meets them; the key of   *)
(* file f of the request is f.                                             *)
(***************************************************************************)
\* a loop that lets the batch grow by one more key before it sends it
BatchIsDue_oneLate(index) ==
    index # 0 /\ (index % (kS3MaxDelete + 1)) = 0

\* if (index && (index % kS3MaxDelete) == 0), s3.cpp:903
BatchIsDue(index) == index # 0 /\ (index % kS3MaxDelete) = 0

\* the loop s3.cpp:900-914 from the top of the iteration of file index + 1,
\* up to the next call of S3SendDelete or to the loop's end: it stops at the
\* first index from there on that is n or at which a batch is due, and
\* every iteration before has pushed its file and counted it
DeleteLoop(index, aws_objs, n) ==
    LET Stops(j) == j = n \/ BatchIsDue(j)
        stop == CHOOSE j \in index..n :
                    Stops(j) /\ \A i \in index..(j - 1) : ~Stops(i)
    IN  [index |-> stop,
         aws_objs |-> aws_objs \o [k \in 1..(stop - index) |-> index + k],
         at |-> IF stop = n THEN "end" ELSE "loop"]

\* S3SendDelete's request
DeleteObjectsRequest(aws_objs) == [api |-> "DeleteObjects", keys |-> aws_objs]

\* what S3SendDelete returns, s3.cpp:880-887
SendDeleteResult(outcome) == IF outcome = "ok" THEN "ok" ELSE "S3Error"

\* a loop that keeps the result of the latest batch, whatever it is
DeleteRemember_latest(res, batch_res) == batch_res

\* if (!batch_res) res = batch_res, s3.cpp:906-908 and 919-921
DeleteRemember(res, batch_res) == IF batch_res # "ok" THEN batch_res ELSE res

(***************************************************************************)
(* S3ListAsync, s3.cpp:819-863.  A string is the sequence of its           *)
(* characters.                                                             *)
(***************************************************************************)
\* short_name.find(object) == 0, s3.cpp:846-847
BeginsWith(key, object) ==
    /\ Len(key) >= Len(object)
    /\ SubSeq(key, 1, Len(object)) = object

\* short_name[object.length()] == '/', s3.cpp:848; the character at
\* length() is the terminating null
SlashFollows(key, object) ==
    /\ Len(key) > Len(object)
    /\ key[Len(object) + 1] = "/"

\* an erase that leaves the separator in the name
ShortName_keepsSeparator(key, object) ==
    SubSeq(key, Len(object) + 1, Len(key))

\* short_name.erase(begin, object.length() + 1) with begin = 0, s3.cpp:849
ShortName(key, object) == SubSeq(key, Len(object) + 2, Len(key))

\* a request that never carries a continuation token
ListObjectsV2Request_noToken(object, token) ==
    [api |-> "ListObjectsV2", prefix |-> object, token |-> EmptyString]

\* the request of one turn of the loop, s3.cpp:829-836
ListObjectsV2Request(object, token) ==
    [api |-> "ListObjectsV2", prefix |-> object, token |-> token]

(***************************************************************************)
(* The inputs.                                                             *)
(***************************************************************************)
Starts == 0..MaxStart
SmallSizes == 0..MaxSize
\* the sizes around the part-count limit
LargeSizes ==
    {kS3DefaultBufSize * (kS3MaxMultiPart + 1) + d : d \in (-1)..MaxDelta}
    \cup {kS3MaxBufSize * (kS3MaxMultiPart + 1) - 1,
          kS3MaxBufSize * (kS3MaxMultiPart + 1)}
Sizes == SmallSizes \cup LargeSizes
\* the smallest size whose segment size SegmentBuf refuses
HugePutSize == kS3MaxBufSize * (kS3MaxMultiPart + 1)
PutSizes == (0..MaxPutSize) \cup {HugePutSize}
GetSizes == 0..MaxGetSize
\* the directory that is listed, and the keys the remote store may return
\* for it: entries of the directory, an entry of a directory whose name
\* begins with the same characters, and the directory's own name
ListedObject == <<"d">>
GoodKeys == {<<"d", "/", "a">>, <<"d", "/", "b">>, <<"d", "/", "a", "/", "b">>}
Keys == GoodKeys \cup {<<"d", "x", "/", "a">>, <<"d">>}
\* what the caller's set may hold at the call
InitialLists == {{}, {<<"a">>}, {<<"z">>}}
\* the continuation token that comes with page p
Token(p) == <<"token", p>>
\* the numbers of keys of a delete
KeyCounts ==
    (0..MaxKeys)
    \cup {j * kS3MaxDelete + d : j \in 1..MaxBatches, d \in (-1)..1}

InitSeg ==
    /\ seg_start = 0
    /\ seg_size = 0
    /\ seg_res = [status |-> "none", view |-> NoView]

InitCs ==
    /\ cs = NewSemaphore
    /\ cs_calls = 0
    /\ cs_pc = "idle"

InitOg ==
    /\ og_ops = <<>>
    /\ og_n = 0
    /\ og_fut = [l \in Labels |-> [state |-> "none", value |-> DefaultVal]]
    /\ og_order = <<>>
    /\ og_cont = [l \in Labels |-> "ok"]
    /\ og_ret = [l \in Labels |-> DefaultVal]
    /\ og_ran = <<>>
    /\ og_pc = "idle"
    /\ og_err = NoError
    /\ og_result = NoError

\* no put yet.  impl is the PutMultiImpl on the heap: "none", "allocated"
\* or "deleted".  pending holds the part numbers whose upload is in flight
\* (0 stands for the single PutObjectAsync); tagged holds those whose
\* callback has stored the tag and not yet counted the part.  finished and
\* waiter are S3UploadOverwrite's counter and the state of its condition
\* variable.  order and failed_part record what the callbacks met: the part
\* numbers in the order their uploads succeeded, and the part number whose
\* upload failed (0: none).
InitPut ==
    put = [api |-> "none", size |-> 0, pc |-> "idle", result |-> "none",
           impl |-> "none", parts_ |-> <<>>, i |-> 0,
           upload_id_ |-> EmptyString, part_e_tags_ |-> <<>>,
           finished |-> 0, waiter |-> "none", sema |-> NewSemaphore,
           reqs |-> <<>>, pending |-> {}, tagged |-> {},
           order |-> <<>>, failed_part |-> 0, created |-> "none"]

\* no get yet.  multi_result is what S3GetMultiAsync itself returned;
\* pending holds the parts (1, 2, ...) whose request is in flight; finished
\* and waiter are S3DownloadRange's counter and the state of its condition
\* variable.
InitGet ==
    get = [api |-> "none", start |-> 0, size |-> 0, pc |-> "idle",
           result |-> "none", multi_result |-> "none", parts |-> <<>>,
           i |-> 0, finished |-> 0, waiter |-> "none",
           sema |-> NewSemaphore, reqs |-> <<>>, pending |-> {}]

\* no delete yet.  n is files.size(), the files being 1..n in the order
\* the loop meets them; index, aws_objs and res are the loop's variables;
\* at is the call of S3SendDelete that is waiting, the one in the loop or
\* the one after it; reqs holds the DeleteObjects requests sent and
\* outcomes the remote store's answers
InitDel ==
    del = [pc |-> "idle", n |-> 0, index |-> 0, aws_objs |-> <<>>,
           res |-> "ok", at |-> "none", reqs |-> <<>>, outcomes |-> <<>>,
           result |-> "none"]

\* no listing yet.  list is the caller's set and initial what it held at
\* the call; token is the loop's variable; reqs holds the ListObjectsV2
\* requests sent, each with its continuation token, and pages the
\* successful answers
InitLst ==
    lst = [pc |-> "idle", list |-> {}, initial |-> {}, token |-> EmptyString,
           reqs |-> <<>>, pages |-> <<>>, result |-> "none"]

\* no S3GetSize yet.  size is the caller's *size, "unset" until the call
\* writes it; outcome is the remote store's answer; after_put tells that
\* the put had returned success when S3GetSize was called
InitHead ==
    head = [pc |-> "idle", reqs |-> <<>>, outcome |-> "none",
            result |-> "none", size |-> "unset", after_put |-> FALSE]

\* S3Init has not run: library_init is false and async_s3_client is null
\* (s3.cpp:62-63); init_pc is the position of S3Init; no call yet
InitLib ==
    lib = [library_init |-> FALSE, async_s3_client |-> "null",
           init_pc |-> "idle", calls |-> <<>>]

\* no call of Create or Update yet
InitNs == ns = <<>>

Init ==
    /\ InitSeg /\ InitCs /\ InitOg /\ InitPut /\ InitGet /\ InitDel /\ InitLst
    /\ InitHead /\ InitLib /\ InitNs

(***************************************************************************)
(* SegmentBuf called on its own.                                           *)
(***************************************************************************)
\* one call SegmentBuf(start, data, size) with a size of the set S
CallSegmentBuf(S) ==
    /\ \E start \in Starts, size \in S :
        /\ seg_start' = start
        /\ seg_size' = size
        /\ seg_res' = SegmentBuf(start, size)
    /\ UNCHANGED notSeg

\* SegmentBuf on the small ranges
NextSeg == CallSegmentBuf(SmallSizes)
SpecSeg == Init /\ [][NextSeg]_vars

\* SegmentBuf on every size, those around the part-count limit included
NextSegLimit == CallSegmentBuf(Sizes)
SpecSegLimit == Init /\ [][NextSegLimit]_vars

(***************************************************************************)
(* A CountingSemaphore driven by arbitrary callers: one thread sets the    *)
(* goal, any number of completions decrement, one thread waits.  Nothing   *)
(* runs once the semaphore has aborted the process.                        *)
(***************************************************************************)
CsSetGoal ==
    /\ ~cs.fatal
    /\ \E n \in 0..MaxGoal : cs' = SetGoal(cs, n)
    /\ cs_calls' = IF cs'.fatal THEN cs_calls ELSE 0
    /\ UNCHANGED <<cs_pc, notCs>>

CsGoalMinusOne ==
    /\ ~cs.fatal
    /\ cs_calls < MaxGoal + MaxExtra
    /\ cs' = GoalMinusOne(cs)
    /\ cs_calls' = cs_calls + 1
    /\ UNCHANGED <<cs_pc, notCs>>

\* WaitGoal is entered, or a notified waiter checks again
CsWaitGoal ==
    /\ ~cs.fatal
    /\ \/ cs_pc \in {"idle", "returned"}
       \/ cs_pc = "waiting" /\ cs.waiter = "notified"
    /\ cs' = WaitGoal(cs)
    /\ cs_pc' = IF WaitGoalBlocks(cs) THEN "waiting" ELSE "returned"
    /\ UNCHANGED <<cs_calls, notCs>>

NextCs == CsSetGoal \/ CsGoalMinusOne \/ CsWaitGoal
SpecCs == Init /\ [][NextCs]_vars

(***************************************************************************)
(* The operation group's operations.                                       *)
(***************************************************************************)
\* registration, common to AddOp and AddReturnsOp: the future is pending,
\* the continuation is one that will return c
Register(returns, c) ==
    /\ og_pc = "idle"
    /\ og_n < MaxOps
    /\ og_n' = og_n + 1
    /\ og_ops' = Enqueue(og_ops, [label |-> og_n + 1, returns |-> returns])
    /\ og_fut' = [og_fut EXCEPT ![og_n + 1].state = "pending"]
    /\ og_cont' = [og_cont EXCEPT ![og_n + 1] = c]
    /\ UNCHANGED <<og_order, og_ret, og_ran, og_pc, og_err, og_result,
                   notOg>>

\* ReadGroup::AddOp(future, file, on_complete)
AddOp == \E c \in {"ok", "err"} : Register(FALSE, c)

\* ReadGroup::AddReturnsOp(future, file, on_complete)
AddReturnsOp == \E c \in {"ok", "err"} : Register(TRUE, c)

\* the values a future may carry: a Result<void> carries none
ValuesOf(l) ==
    IF \E i \in 1..Len(og_ops) : og_ops[i].label = l /\ og_ops[i].returns
    THEN 1..MaxVal
    ELSE {DefaultVal}

\* the work behind a future ends, in any order, with a value or an error
Resolve ==
    /\ \E l \in Labels :
        /\ og_fut[l].state = "pending"
        /\ \E st \in {"ok", "err"}, v \in ValuesOf(l) :
            og_fut' = [og_fut EXCEPT
                         ![l] = [state |-> st,
                                 value |-> IF st = "ok" THEN v ELSE DefaultVal]]
        /\ og_order' = Append(og_order, l)
    /\ UNCHANGED <<og_ops, og_n, og_cont, og_ret, og_ran, og_pc, og_err,
                   og_result, notOg>>

\* ReadGroup::Finish is called
FinishBegin ==
    /\ og_pc = "idle"
    /\ og_pc' = "draining"
    /\ og_err' = NoError
    /\ UNCHANGED <<og_ops, og_n, og_fut, og_order, og_cont, og_ret, og_ran,
                   og_result, notOg>>

\* Finish drains the head of the queue: it blocks until the head's future
\* has resolved, runs the continuation and remembers the error
FinishOne ==
    /\ og_pc = "draining"
    /\ og_ops # <<>>
    /\ LET op == Head(og_ops)
           res == FutureGet(op.label)
       IN  /\ og_fut[op.label].state \in {"ok", "err"}
           /\ og_ret' = [og_ret EXCEPT ![op.label] = RetValAfterGet(op)]
           /\ IF RunsContinuation(res)
              THEN /\ og_ran' = Append(og_ran, [label |-> op.label,
                                                 arg |-> ContinuationArg(op)])
                   /\ og_err' = Remember(og_err, EntryError(op, res))
              ELSE /\ og_ran' = og_ran
                   /\ og_err' = Remember(og_err, res)
           /\ og_ops' = Tail(og_ops)
    /\ UNCHANGED <<og_n, og_fut, og_order, og_cont, og_pc, og_result,
                   notOg>>

\* a Finish that returns as soon as it has an error to report
FinishEnd_atFirstError ==
    /\ og_pc = "draining"
    /\ og_ops = <<>> \/ og_err # NoError
    /\ og_pc' = "finished"
    /\ og_result' = FinishResult(og_err)
    /\ UNCHANGED <<og_ops, og_n, og_fut, og_order, og_cont, og_ret, og_ran,
                   og_err, notOg>>

\* the queue is empty: Finish returns
FinishEnd ==
    /\ og_pc = "draining"
    /\ og_ops = <<>>
    /\ og_pc' = "finished"
    /\ og_result' = FinishResult(og_err)
    /\ UNCHANGED <<og_ops, og_n, og_fut, og_order, og_cont, og_ret, og_ran,
                   og_err, notOg>>

NextOg == AddOp \/ AddReturnsOp \/ Resolve \/ FinishBegin \/ FinishOne
          \/ FinishEnd
SpecOg == Init /\ [][NextOg]_vars

\* a group of AddOp operations, which is what AddReturnsOp registers too
\* (HttpNameServerClient.cpp:167); the work behind every future ends, and
\* the thread in Finish runs
NextOgDrain == AddOp \/ Resolve \/ FinishBegin \/ FinishOne \/ FinishEnd
FairSpecOg ==
    /\ Init /\ [][NextOgDrain]_vars
    /\ WF_vars(Resolve) /\ WF_vars(FinishOne \/ FinishEnd)

(***************************************************************************)
(* put, synchronous: S3UploadOverwrite, s3.cpp:293-419.                    *)
(***************************************************************************)
PutAlive == put.pc \notin {"idle", "aborted"}

\* the call: a small put goes to S3PutSingleSync, which sends PutObject; any
\* other sends CreateMultipartUpload.  Both calls block.
S3UploadOverwrite ==
    /\ put.pc = "idle"
    /\ \E size \in PutSizes :
        put' = IF size < kS3DefaultBufSize
               THEN [put EXCEPT !.api = "S3UploadOverwrite", !.size = size,
                                !.pc = "PutObject",
                                !.reqs = Append(@, PutObjectRequest(size))]
               ELSE [put EXCEPT !.api = "S3UploadOverwrite", !.size = size,
                                !.pc = "CreateMultipartUpload",
                                !.reqs = Append(@, CreateMultipartUploadRequest)]
    /\ UNCHANGED notPut

\* S3PutSingleSync: PutObject returns, s3.cpp:279-290
S3PutSingleSync ==
    /\ put.pc = "PutObject"
    /\ \E outcome \in Outcomes :
        put' = [put EXCEPT !.pc = "returned",
                           !.result = IF outcome = "ok" THEN "ok"
                                      ELSE "S3Error"]
    /\ UNCHANGED notPut

\* CreateMultipartUpload returns, s3.cpp:312-337: an error is returned to
\* the caller; otherwise the buffer is cut into parts
SyncCreateReturns ==
    /\ put.pc = "CreateMultipartUpload"
    /\ \E outcome \in Outcomes :
        LET res == CheckS3Error(outcome)
            buf == SegmentBuf(0, put.size)
            parts == Parts(buf.view)
        IN  put' = IF res # "ok"
                   THEN [put EXCEPT !.pc = "returned", !.result = res,
                                    !.created = outcome]
                   ELSE IF buf.status # "ok" \/ Len(parts) = 0
                   THEN [put EXCEPT !.pc = "aborted", !.created = outcome]
                   ELSE [put EXCEPT !.pc = "UploadPartAsync",
                                    !.created = outcome,
                                    !.upload_id_ = UploadId,
                                    !.parts_ = parts,
                                    !.part_e_tags_ = EmptyTags(Len(parts)),
                                    !.finished = 0, !.i = 0]
    /\ UNCHANGED notPut

\* one turn of the loop s3.cpp:339-386: the upload of parts[i] is sent
SyncUploadPart ==
    /\ put.api = "S3UploadOverwrite"
    /\ put.pc = "UploadPartAsync"
    /\ put.i < Len(put.parts_)
    /\ put' = [put EXCEPT
                 !.reqs = Append(@, SyncUploadPartRequest(
                                        put.i, put.parts_[put.i + 1],
                                        put.upload_id_)),
                 !.pending = @ \cup {put.i + 1},
                 !.i = @ + 1]
    /\ UNCHANGED notPut

\* the callback of part k, s3.cpp:356-383, on a worker thread: under the
\* mutex it stores the tag, counts the part and notifies; a failed upload is
\* fatal
SyncPartCallback ==
    /\ put.api = "S3UploadOverwrite"
    /\ PutAlive
    /\ \E k \in put.pending, outcome \in Outcomes :
        put' = IF outcome = "ok"
               THEN [put EXCEPT !.part_e_tags_[k] = ETag(k),
                                !.finished = @ + 1,
                                !.waiter = IF @ = "parked" THEN "notified"
                                           ELSE @,
                                !.pending = @ \ {k},
                                !.order = Append(@, k)]
               ELSE [put EXCEPT !.pc = "aborted", !.failed_part = k]
    /\ UNCHANGED notPut

\* a wait that is content when one part is still missing
SyncWait_onePartShort ==
    /\ put.api = "S3UploadOverwrite"
    /\ put.pc = "UploadPartAsync"
    /\ put.i = Len(put.parts_)
    /\ put.waiter # "parked"
    /\ put' = IF put.finished + 1 >= Len(put.parts_)
              THEN [put EXCEPT
                      !.waiter = "none",
                      !.pc = "CompleteMultipartUpload",
                      !.reqs = Append(@, CompleteMultipartUploadRequest(
                                             put.upload_id_,
                                             put.part_e_tags_))]
              ELSE [put EXCEPT !.waiter = "parked"]
    /\ UNCHANGED notPut

\* cv.wait(lk, finished >= parts.size()), s3.cpp:387-392, entered or woken;
\* once it is through, the manifest is built and CompleteMultipartUpload is
\* sent, s3.cpp:394-409
SyncWait ==
    /\ put.api = "S3UploadOverwrite"
    /\ put.pc = "UploadPartAsync"
    /\ put.i = Len(put.parts_)
    /\ put.waiter # "parked"
    /\ put' = IF put.finished >= Len(put.parts_)
              THEN [put EXCEPT
                      !.waiter = "none",
                      !.pc = "CompleteMultipartUpload",
                      !.reqs = Append(@, CompleteMultipartUploadRequest(
                                             put.upload_id_,
                                             put.part_e_tags_))]
              ELSE [put EXCEPT !.waiter = "parked"]
    /\ UNCHANGED notPut

\* CompleteMultipartUpload returns, s3.cpp:408-418
SyncCompleteReturns ==
    /\ put.api = "S3UploadOverwrite"
    /\ put.pc = "CompleteMultipartUpload"
    /\ \E outcome \in Outcomes :
        put' = [put EXCEPT !.pc = "returned",
                           !.result = IF outcome = "ok" THEN "ok"
                                      ELSE "S3Error"]
    /\ UNCHANGED notPut

(***************************************************************************)
(* put, asynchronous: S3PutAsync, s3.cpp:622-657, and the functions its    *)
(* future runs, s3.cpp:421-620.                                            *)
(***************************************************************************)
\* S3PutSingleAsync, s3.cpp:575-614
S3PutSingleAsync(size) ==
    LET sema == SetGoal(NewSemaphore, 1)
    IN  IF sema.fatal
        THEN [put EXCEPT !.api = "S3PutAsync", !.size = size,
                         !.pc = "aborted"]
        ELSE [put EXCEPT !.api = "S3PutAsync", !.size = size,
                         !.sema = sema,
                         !.reqs = Append(@, PutObjectRequest(size)),
                         !.pending = {0},
                         !.pc = "S3PutSingleAsyncFinish"]

\* S3PutMultiAsync1 that leaves the semaphore as PutMultiImpl made it
S3PutMultiAsync1_noGoal(size) ==
    LET buf == SegmentBuf(0, size)
        parts == Parts(buf.view)
    IN  IF size <= 0 \/ buf.status # "ok"
        THEN [put EXCEPT !.api = "S3PutAsync", !.size = size,
                         !.pc = "aborted"]
        ELSE [put EXCEPT !.api = "S3PutAsync", !.size = size,
                         !.impl = "allocated",
                         !.parts_ = parts,
                         !.sema = NewSemaphore,
                         !.reqs = Append(@, CreateMultipartUploadRequest),
                         !.part_e_tags_ = EmptyTags(NumSegments(buf.view)),
                         !.upload_id_ = EmptyString,
                         !.pc = "S3PutMultiAsync2"]

\* S3PutMultiAsync1, s3.cpp:421-453
S3PutMultiAsync1(size) ==
    LET buf == SegmentBuf(0, size)
        parts == Parts(buf.view)
        sema == SetGoal(NewSemaphore, Len(parts))
    IN  IF size <= 0 \/ buf.status # "ok" \/ sema.fatal
        THEN [put EXCEPT !.api = "S3PutAsync", !.size = size,
                         !.pc = "aborted"]
        ELSE [put EXCEPT !.api = "S3PutAsync", !.size = size,
                         !.impl = "allocated",
                         !.parts_ = parts,
                         !.sema = sema,
                         !.reqs = Append(@, CreateMultipartUploadRequest),
                         !.part_e_tags_ = EmptyTags(NumSegments(buf.view)),
                         !.upload_id_ = EmptyString,
                         !.pc = "S3PutMultiAsync2"]

\* a call that sends a put of the threshold size as a single PutObject
S3PutAsync_singleAtThreshold ==
    /\ put.pc = "idle"
    /\ \E size \in PutSizes :
        put' = [put EXCEPT !.api = "S3PutAsync", !.size = size,
                           !.pc = IF size <= kS3DefaultBufSize
                                  THEN "SingleFuture" ELSE "MultiFuture"]
    /\ UNCHANGED notPut

\* the call, s3.cpp:622-657: the size picks the future, which std::async
\* starts on a thread of its own; the caller has its handle at once
S3PutAsync ==
    /\ put.pc = "idle"
    /\ \E size \in PutSizes :
        put' = [put EXCEPT !.api = "S3PutAsync", !.size = size,
                           !.pc = IF size < kS3DefaultBufSize
                                  THEN "SingleFuture" ELSE "MultiFuture"]
    /\ UNCHANGED notPut

\* the future of a small put begins, s3.cpp:627-632: S3PutSingleAsync
SingleFuture ==
    /\ put.pc = "SingleFuture"
    /\ put' = S3PutSingleAsync(put.size)
    /\ UNCHANGED notPut

\* the future of any other put begins, s3.cpp:641-642: S3PutMultiAsync1
MultiFuture ==
    /\ put.pc = "MultiFuture"
    /\ put' = S3PutMultiAsync1(put.size)
    /\ UNCHANGED notPut

\* the callback of the single PutObjectAsync, s3.cpp:595-610
SinglePutCallback ==
    /\ put.api = "S3PutAsync"
    /\ PutAlive
    /\ 0 \in put.pending
    /\ \E outcome \in Outcomes :
        LET sema == GoalMinusOne(put.sema)
        IN  put' = IF outcome = "ok" /\ ~sema.fatal
                   THEN [put EXCEPT !.sema = sema, !.pending = {}]
                   ELSE [put EXCEPT !.pc = "aborted"]
    /\ UNCHANGED notPut

\* S3PutSingleAsyncFinish, s3.cpp:616-620: WaitGoal, entered or woken
S3PutSingleAsyncFinish ==
    /\ put.pc = "S3PutSingleAsyncFinish"
    /\ put.sema.waiter # "parked"
    /\ put' = IF WaitGoalBlocks(put.sema)
              THEN [put EXCEPT !.sema = WaitGoal(put.sema)]
              ELSE [put EXCEPT !.sema = WaitGoal(put.sema),
                               !.pc = "returned", !.result = "ok"]
    /\ UNCHANGED notPut

\* a S3PutMultiAsync2 that does not look at the create response and goes on
\* with the upload id it finds there
AsyncCreateReturns_goesOn ==
    /\ put.pc = "S3PutMultiAsync2"
    /\ \E outcome \in Outcomes :
        put' = [put EXCEPT !.created = outcome,
                           !.upload_id_ = IF outcome = "ok" THEN UploadId
                                          ELSE EmptyString,
                           !.i = 0, !.pc = "UploadPartAsync"]
    /\ UNCHANGED notPut

\* S3PutMultiAsync2, s3.cpp:464-478: create_fut_.get() returns; a failed
\* create is returned to the caller as S3Error
AsyncCreateReturns ==
    /\ put.pc = "S3PutMultiAsync2"
    /\ \E outcome \in Outcomes :
        put' = IF outcome # "ok"
               THEN [put EXCEPT !.pc = "returned", !.result = "S3Error",
                                !.created = outcome]
               ELSE [put EXCEPT !.upload_id_ = UploadId, !.i = 0,
                                !.created = outcome,
                                !.pc = "UploadPartAsync"]
    /\ UNCHANGED notPut

\* one turn of the loop s3.cpp:481-523; after the last one S3PutMultiAsync2
\* returns and S3PutMultiAsync3 is next
AsyncUploadPart ==
    /\ put.api = "S3PutAsync"
    /\ put.pc = "UploadPartAsync"
    /\ put.i < Len(put.parts_)
    /\ put' = [put EXCEPT
                 !.reqs = Append(@, AsyncUploadPartRequest(
                                        put.i, put.parts_[put.i + 1],
                                        put.upload_id_)),
                 !.pending = @ \cup {put.i + 1},
                 !.i = @ + 1,
                 !.pc = IF put.i + 1 = Len(put.parts_)
                        THEN "S3PutMultiAsync3" ELSE @]
    /\ UNCHANGED notPut

\* a callback that counts a failed upload like a successful one, with no tag
AsyncPartCallback_countsFailure ==
    /\ put.api = "S3PutAsync"
    /\ PutAlive
    /\ \E k \in put.pending \ {0}, outcome \in Outcomes :
        put' = IF outcome = "ok"
               THEN [put EXCEPT !.part_e_tags_[k] = ETag(k),
                                !.pending = @ \ {k},
                                !.tagged = @ \cup {k},
                                !.order = Append(@, k)]
               ELSE [put EXCEPT !.pending = @ \ {k},
                                !.tagged = @ \cup {k},
                                !.failed_part = k]
    /\ UNCHANGED notPut

\* a callback that stores every tag in the first element
AsyncPartCallback_firstElement ==
    /\ put.api = "S3PutAsync"
    /\ PutAlive
    /\ \E k \in put.pending \ {0}, outcome \in Outcomes :
        put' = IF outcome = "ok"
               THEN [put EXCEPT !.part_e_tags_[1] = ETag(k),
                                !.pending = @ \ {k},
                                !.tagged = @ \cup {k},
                                !.order = Append(@, k)]
               ELSE [put EXCEPT !.pc = "aborted", !.failed_part = k]
    /\ UNCHANGED notPut

\* a callback that goes on to the semaphore without having stored its tag
AsyncPartCallback_withoutTag ==
    /\ put.api = "S3PutAsync"
    /\ PutAlive
    /\ \E k \in put.pending \ {0}, outcome \in Outcomes :
        put' = IF outcome = "ok"
               THEN [put EXCEPT !.pending = @ \ {k},
                                !.tagged = @ \cup {k},
                                !.order = Append(@, k)]
               ELSE [put EXCEPT !.pc = "aborted", !.failed_part = k]
    /\ UNCHANGED notPut

\* the callback of part k, s3.cpp:500-521, first half: the tag is stored
\* (without a lock); a failed upload is fatal
AsyncPartCallback ==
    /\ put.api = "S3PutAsync"
    /\ PutAlive
    /\ \E k \in put.pending \ {0}, outcome \in Outcomes :
        put' = IF outcome = "ok"
               THEN [put EXCEPT !.part_e_tags_[k] = ETag(k),
                                !.pending = @ \ {k},
                                !.tagged = @ \cup {k},
                                !.order = Append(@, k)]
               ELSE [put EXCEPT !.pc = "aborted", !.failed_part = k]
    /\ UNCHANGED notPut

\* the callback of part k, second half: sema.GoalMinusOne(), s3.cpp:508
AsyncPartCallbackMinusOne ==
    /\ PutAlive
    /\ \E k \in put.tagged :
        LET sema == GoalMinusOne(put.sema)
        IN  put' = IF sema.fatal
                   THEN [put EXCEPT !.pc = "aborted"]
                   ELSE [put EXCEPT !.sema = sema, !.tagged = @ \ {k}]
    /\ UNCHANGED notPut

\* a wait that parks without looking at the count
S3PutMultiAsync3_parksFirst ==
    /\ put.pc = "S3PutMultiAsync3"
    /\ put.sema.waiter # "parked"
    /\ put' = IF put.sema.waiter = "none" \/ WaitGoalBlocks(put.sema)
              THEN [put EXCEPT !.sema.waiter = "parked"]
              ELSE [put EXCEPT
                      !.sema = WaitGoal(put.sema),
                      !.reqs = Append(@, CompleteMultipartUploadRequest(
                                             put.upload_id_,
                                             put.part_e_tags_)),
                      !.pc = "S3PutMultiAsyncFinish"]
    /\ UNCHANGED notPut

\* S3PutMultiAsync3, s3.cpp:528-553: WaitGoal, entered or woken; once it is
\* through, the manifest is built and CompleteMultipartUploadCallable sent
S3PutMultiAsync3 ==
    /\ put.pc = "S3PutMultiAsync3"
    /\ put.sema.waiter # "parked"
    /\ put' = IF WaitGoalBlocks(put.sema)
              THEN [put EXCEPT !.sema = WaitGoal(put.sema)]
              ELSE [put EXCEPT
                      !.sema = WaitGoal(put.sema),
                      !.reqs = Append(@, CompleteMultipartUploadRequest(
                                             put.upload_id_,
                                             put.part_e_tags_)),
                      !.pc = "S3PutMultiAsyncFinish"]
    /\ UNCHANGED notPut

\* a finish that answers a failed completion by creating the upload again
S3PutMultiAsyncFinish_startsOver ==
    /\ put.pc = "S3PutMultiAsyncFinish"
    /\ \E outcome \in Outcomes :
        put' = IF outcome = "ok"
               THEN [put EXCEPT !.impl = "deleted", !.pc = "returned",
                                !.result = "ok"]
               ELSE [put EXCEPT
                       !.reqs = Append(@, CreateMultipartUploadRequest),
                       !.pc = "S3PutMultiAsync2"]
    /\ UNCHANGED notPut

\* S3PutMultiAsyncFinish, s3.cpp:555-573: outcome_fut_.get() returns, the
\* session is deleted
S3PutMultiAsyncFinish ==
    /\ put.pc = "S3PutMultiAsyncFinish"
    /\ \E outcome \in Outcomes :
        put' = [put EXCEPT !.impl = "deleted",
                           !.pc = "returned",
                           !.result = IF outcome = "ok" THEN "ok"
                                      ELSE "S3Error"]
    /\ UNCHANGED notPut

\* the steps of the thread that runs the put, and of a callback that has
\* started
PutThread ==
    \/ SyncUploadPart \/ SyncWait
    \/ SingleFuture \/ MultiFuture
    \/ S3PutSingleAsyncFinish \/ AsyncUploadPart \/ S3PutMultiAsync3
    \/ AsyncPartCallbackMinusOne

\* the remote store answers
PutRemote ==
    \/ S3PutSingleSync \/ SyncCreateReturns \/ SyncPartCallback
    \/ SyncCompleteReturns
    \/ SinglePutCallback \/ AsyncCreateReturns \/ AsyncPartCallback
    \/ S3PutMultiAsyncFinish

NextPut == S3UploadOverwrite \/ S3PutAsync \/ PutThread \/ PutRemote
SpecPut == Init /\ [][NextPut]_vars

\* threads that can run do run; the remote store owes nothing
FairSpecPut == SpecPut /\ WF_vars(PutThread)

(***************************************************************************)
(* get, synchronous: S3DownloadRange, s3.cpp:748-813.                      *)
(***************************************************************************)
GetAlive == get.pc \notin {"idle", "aborted"}

\* a S3DownloadRange that refuses an empty range
DownloadRange_rejectsEmpty(start, size) ==
    LET buf == SegmentBuf(start, size)
        parts == Parts(buf.view)
        g == [get EXCEPT !.api = "S3DownloadRange", !.start = start,
                         !.size = size]
    IN  IF buf.status # "ok" THEN [g EXCEPT !.pc = "aborted"]
        ELSE IF Len(parts) = 0
        THEN [g EXCEPT !.pc = "returned", !.result = "S3Error"]
        ELSE IF Len(parts) = 1
        THEN [g EXCEPT !.parts = parts, !.pc = "GetObject",
                       !.reqs = Append(@, PrepareObjectRequest(
                                              "GetObject", parts[1]))]
        ELSE [g EXCEPT !.parts = parts, !.pc = "GetObjectAsync",
                       !.i = 0, !.finished = 0]

\* the call, s3.cpp:752-782: nothing to do for an empty range, one blocking
\* GetObject for a single part, the asynchronous loop otherwise
DownloadRange(start, size) ==
    LET buf == SegmentBuf(start, size)
        parts == Parts(buf.view)
        g == [get EXCEPT !.api = "S3DownloadRange", !.start = start,
                         !.size = size]
    IN  IF buf.status # "ok" THEN [g EXCEPT !.pc = "aborted"]
        ELSE IF Len(parts) = 0
        THEN [g EXCEPT !.pc = "returned", !.result = "ok"]
        ELSE IF Len(parts) = 1
        THEN [g EXCEPT !.parts = parts, !.pc = "GetObject",
                       !.reqs = Append(@, PrepareObjectRequest(
                                              "GetObject", parts[1]))]
        ELSE [g EXCEPT !.parts = parts, !.pc = "GetObjectAsync",
                       !.i = 0, !.finished = 0]

S3DownloadRange ==
    /\ get.pc = "idle"
    /\ \E start \in Starts, size \in GetSizes :
        get' = DownloadRange(start, size)
    /\ UNCHANGED notGet

\* the single GetObject returns, s3.cpp:764-777
SyncGetReturns ==
    /\ get.pc = "GetObject"
    /\ \E outcome \in Outcomes :
        get' = [get EXCEPT !.pc = "returned",
                           !.result = CheckS3Error(outcome)]
    /\ UNCHANGED notGet

\* one turn of the loop s3.cpp:803-807
DownloadGetPart ==
    /\ get.api = "S3DownloadRange"
    /\ get.pc = "GetObjectAsync"
    /\ get.i < Len(get.parts)
    /\ get' = [get EXCEPT
                 !.reqs = Append(@, PrepareObjectRequest(
                                        "GetObjectAsync",
                                        get.parts[get.i + 1])),
                 !.pending = @ \cup {get.i + 1},
                 !.i = @ + 1]
    /\ UNCHANGED notGet

\* a callback that counts its part and wakes no one
DownloadCallback_silent ==
    /\ get.api = "S3DownloadRange"
    /\ GetAlive
    /\ \E k \in get.pending, outcome \in Outcomes :
        get' = IF outcome = "ok"
               THEN [get EXCEPT !.finished = @ + 1,
                                !.pending = @ \ {k}]
               ELSE [get EXCEPT !.pc = "aborted"]
    /\ UNCHANGED notGet

\* the callback of one part, s3.cpp:783-802
DownloadCallback ==
    /\ get.api = "S3DownloadRange"
    /\ GetAlive
    /\ \E k \in get.pending, outcome \in Outcomes :
        get' = IF outcome = "ok"
               THEN [get EXCEPT !.finished = @ + 1,
                                !.waiter = IF @ = "parked" THEN "notified"
                                           ELSE @,
                                !.pending = @ \ {k}]
               ELSE [get EXCEPT !.pc = "aborted"]
    /\ UNCHANGED notGet

\* a wait that is content when one callback is still to come
DownloadWait_onePartShort ==
    /\ get.api = "S3DownloadRange"
    /\ get.pc = "GetObjectAsync"
    /\ get.i = Len(get.parts)
    /\ get.waiter # "parked"
    /\ get' = IF get.finished + 1 >= Len(get.parts)
              THEN [get EXCEPT !.waiter = "none", !.pc = "returned",
                               !.result = "ok"]
              ELSE [get EXCEPT !.waiter = "parked"]
    /\ UNCHANGED notGet

\* cv.wait(lk, finished >= parts.size()), s3.cpp:809-812, entered or woken
DownloadWait ==
    /\ get.api = "S3DownloadRange"
    /\ get.pc = "GetObjectAsync"
    /\ get.i = Len(get.parts)
    /\ get.waiter # "parked"
    /\ get' = IF get.finished >= Len(get.parts)
              THEN [get EXCEPT !.waiter = "none", !.pc = "returned",
                               !.result = "ok"]
              ELSE [get EXCEPT !.waiter = "parked"]
    /\ UNCHANGED notGet

(***************************************************************************)
(* get, asynchronous: S3GetMultiAsync and S3GetMultiAsyncFinish, called    *)
(* one after the other on a new semaphore, as the future of S3GetAsync     *)
(* does; s3.cpp:681-746.                                                   *)
(***************************************************************************)
\* S3GetMultiAsync up to its loop, s3.cpp:685-692
GetMultiAsync(api, start, size) ==
    LET buf == SegmentBuf(start, size)
        parts == Parts(buf.view)
        sema == SetGoal(get.sema, Len(parts))
        g == [get EXCEPT !.api = api, !.start = start, !.size = size]
    IN  IF buf.status # "ok" THEN [g EXCEPT !.pc = "aborted"]
        ELSE IF Len(parts) = 0
        THEN [g EXCEPT !.multi_result = "ok",
                       !.pc = "S3GetMultiAsyncFinish"]
        ELSE IF sema.fatal THEN [g EXCEPT !.pc = "aborted"]
        ELSE [g EXCEPT !.parts = parts, !.sema = sema, !.i = 0,
                       !.pc = "GetObjectAsync"]

S3GetMultiAsync ==
    /\ get.pc = "idle"
    /\ \E start \in Starts, size \in GetSizes :
        get' = GetMultiAsync("S3GetMultiAsync", start, size)
    /\ UNCHANGED notGet

\* S3GetAsync, s3.cpp:726-746: an empty range is answered at once; for any
\* other the future is started and the caller has its handle
S3GetAsync ==
    /\ get.pc = "idle"
    /\ \E start \in Starts, size \in GetSizes :
        get' = [get EXCEPT !.api = "S3GetAsync", !.start = start,
                           !.size = size,
                           !.pc = IF size = 0 THEN "returned" ELSE "GetFuture",
                           !.result = IF size = 0 THEN "ok" ELSE @]
    /\ UNCHANGED notGet

\* the future of S3GetAsync begins, s3.cpp:733-736: a new semaphore and
\* S3GetMultiAsync up to its loop
GetFuture ==
    /\ get.pc = "GetFuture"
    /\ get' = GetMultiAsync("S3GetAsync", get.start, get.size)
    /\ UNCHANGED notGet

\* one turn of the loop s3.cpp:711-715; after the last one S3GetMultiAsync
\* returns success
AsyncGetPart ==
    /\ get.api \in {"S3GetMultiAsync", "S3GetAsync"}
    /\ get.pc = "GetObjectAsync"
    /\ get.i < Len(get.parts)
    /\ LET last == get.i + 1 = Len(get.parts)
       IN  get' = [get EXCEPT
                     !.reqs = Append(@, PrepareObjectRequest(
                                            "GetObjectAsync",
                                            get.parts[get.i + 1])),
                     !.pending = @ \cup {get.i + 1},
                     !.i = @ + 1,
                     !.multi_result = IF last THEN "ok" ELSE @,
                     !.pc = IF last THEN "S3GetMultiAsyncFinish" ELSE @]
    /\ UNCHANGED notGet

\* the callback of one part, s3.cpp:694-709
AsyncGetCallback ==
    /\ get.api \in {"S3GetMultiAsync", "S3GetAsync"}
    /\ GetAlive
    /\ \E k \in get.pending, outcome \in Outcomes :
        LET sema == GoalMinusOne(get.sema)
        IN  get' = IF outcome = "ok" /\ ~sema.fatal
                   THEN [get EXCEPT !.sema = sema, !.pending = @ \ {k}]
                   ELSE [get EXCEPT !.pc = "aborted"]
    /\ UNCHANGED notGet

\* S3GetMultiAsyncFinish, s3.cpp:719-724: WaitGoal, entered or woken
S3GetMultiAsyncFinish ==
    /\ get.pc = "S3GetMultiAsyncFinish"
    /\ get.sema.waiter # "parked"
    /\ get' = IF WaitGoalBlocks(get.sema)
              THEN [get EXCEPT !.sema = WaitGoal(get.sema)]
              ELSE [get EXCEPT !.sema = WaitGoal(get.sema),
                               !.pc = "returned", !.result = "ok"]
    /\ UNCHANGED notGet

\* the steps of the thread that runs the get
GetThread ==
    \/ DownloadGetPart \/ DownloadWait
    \/ GetFuture \/ AsyncGetPart \/ S3GetMultiAsyncFinish

\* the remote store answers
GetRemote == SyncGetReturns \/ DownloadCallback \/ AsyncGetCallback

NextGet == S3DownloadRange \/ S3GetMultiAsync \/ S3GetAsync \/ GetThread
           \/ GetRemote
SpecGet == Init /\ [][NextGet]_vars

(***************************************************************************)
(* One put or one get, whose threads run when they can and whose remote    *)
(* calls are all answered.                                                 *)
(***************************************************************************)
NextPutGet ==
    \/ get.pc = "idle" /\ NextPut
    \/ put.pc = "idle" /\ NextGet
FairSpecPutGet ==
    /\ Init /\ [][NextPutGet]_vars
    /\ WF_vars(PutThread) /\ WF_vars(PutRemote)
    /\ WF_vars(GetThread) /\ WF_vars(GetRemote)

(***************************************************************************)
(* delete: S3Delete, s3.cpp:890-925.                                       *)
(***************************************************************************)
\* the delete, stopped by DeleteLoop at l: it calls S3SendDelete there, which
\* sends the batch and blocks, or it is after the loop with nothing left to
\* send and returns, s3.cpp:917-924
DeleteGoesOn(d, l) ==
    IF l.at = "end" /\ Len(l.aws_objs) = 0
    THEN [d EXCEPT !.index = l.index, !.aws_objs = l.aws_objs,
                   !.at = "none", !.pc = "returned", !.result = d.res]
    ELSE [d EXCEPT !.index = l.index, !.aws_objs = l.aws_objs,
                   !.at = l.at, !.pc = "DeleteObjects",
                   !.reqs = Append(@, DeleteObjectsRequest(l.aws_objs))]

\* the call: an empty set returns at once, s3.cpp:895-897; otherwise the
\* loop runs up to its first batch
S3Delete ==
    /\ del.pc \in {"idle", "returned"}
    /\ \E n \in KeyCounts :
        LET d == [del EXCEPT !.n = n, !.index = 0, !.aws_objs = <<>>,
                             !.res = "ok", !.reqs = <<>>, !.outcomes = <<>>,
                             !.result = "none"]
        IN  del' = IF n = 0
                   THEN [d EXCEPT !.pc = "returned", !.at = "none",
                                  !.result = "ok"]
                   ELSE DeleteGoesOn(d, DeleteLoop(0, <<>>, n))
    /\ UNCHANGED notDel

\* DeleteObjects returns, s3.cpp:879-887: S3Delete remembers an error; in
\* the loop it clears the batch, takes the file it was at and goes on, after
\* the loop it returns what it remembers
S3SendDelete ==
    /\ del.pc = "DeleteObjects"
    /\ \E outcome \in Outcomes :
        LET res == DeleteRemember(del.res, SendDeleteResult(outcome))
            d == [del EXCEPT !.res = res,
                             !.outcomes = Append(@, outcome)]
        IN  del' = IF del.at = "loop"
                   THEN DeleteGoesOn(d, DeleteLoop(del.index + 1,
                                                   <<del.index + 1>>, del.n))
                   ELSE [d EXCEPT !.pc = "returned", !.at = "none",
                                  !.result = res]
    /\ UNCHANGED notDel

NextDel == S3Delete \/ S3SendDelete
SpecDel == Init /\ [][NextDel]_vars

(***************************************************************************)
(* list: S3ListAsync, s3.cpp:819-863.                                      *)
(***************************************************************************)
\* the call: the future is started, the caller has its handle
S3ListAsync ==
    /\ lst.pc = "idle"
    /\ \E initial \in InitialLists :
        lst' = [lst EXCEPT !.pc = "ListFuture", !.list = initial,
                           !.initial = initial]
    /\ UNCHANGED notLst

\* the future begins, s3.cpp:826-836: the token is empty, the first request
\* is sent without one and blocks
ListFuture ==
    /\ lst.pc = "ListFuture"
    /\ lst' = [lst EXCEPT
                 !.token = EmptyString,
                 !.reqs = Append(@, ListObjectsV2Request(ListedObject,
                                                         EmptyString)),
                 !.pc = "ListObjectsV2"]
    /\ UNCHANGED notLst

\* ListObjectsV2 returns, s3.cpp:836-860: a failure is fatal; the names of
\* the page go into the caller's set one key after the other, in the order
\* of the page, and a key that does not have the form object/name fails an
\* assertion: the names of the keys before it (any of the page's other
\* keys, the page being held without its order) are in the set by then; a
\* truncated page with an empty token fails an assertion; with a token the
\* next request is sent, without one the future returns success
ListObjectsV2Returns ==
    /\ lst.pc = "ListObjectsV2"
    /\ \E outcome \in Outcomes, contents \in SUBSET Keys,
          truncated \in BOOLEAN,
          next \in {EmptyString, Token(Len(lst.pages) + 1)} :
      LET bad == {key \in contents :
                     \/ ~BeginsWith(key, ListedObject)
                     \/ ~SlashFollows(key, ListedObject)}
      IN
      \E before \in IF bad = {} THEN {{}} ELSE SUBSET (contents \ bad) :
        /\ Len(lst.reqs) = MaxPages => ~truncated
        /\ LET names == {ShortName(key, ListedObject) : key \in contents}
               page == [contents |-> contents, truncated |-> truncated,
                        next |-> next]
               token == IF truncated THEN next ELSE EmptyString
               l == [lst EXCEPT !.pages = Append(@, page)]
           IN  lst' =
                 IF outcome # "ok" THEN [lst EXCEPT !.pc = "aborted"]
                 ELSE IF bad # {}
                 THEN [l EXCEPT
                         !.list = @ \cup {ShortName(key, ListedObject) :
                                             key \in before},
                         !.pc = "aborted"]
                 ELSE IF truncated /\ Len(next) = 0
                 THEN [l EXCEPT !.list = @ \cup names, !.pc = "aborted"]
                 ELSE IF Len(token) > 0
                 THEN [l EXCEPT
                         !.list = @ \cup names,
                         !.token = token,
                         !.reqs = Append(@, ListObjectsV2Request(
                                                ListedObject, token))]
                 ELSE [l EXCEPT !.list = @ \cup names,
                                !.token = token,
                                !.pc = "returned", !.result = "ok"]
    /\ UNCHANGED notLst

NextLst == S3ListAsync \/ ListFuture \/ ListObjectsV2Returns
SpecLst == Init /\ [][NextLst]_vars

\* the future runs and the remote store answers every request
FairSpecLst == SpecLst /\ WF_vars(ListFuture \/ ListObjectsV2Returns)

(***************************************************************************)
(* headSize: S3GetSize, s3.cpp:221-244, on the object of the put.  The     *)
(* remote store holds the object once it has answered success to the       *)
(* PutObject or to the CompleteMultipartUpload of the put; the object's    *)
(* length is the length of the PutObject's body, or the lengths of the     *)
(* uploaded parts that the manifest lists, added up.                       *)
(***************************************************************************)
\* the remote store has answered success to the request that makes the
\* object
ObjectStored ==
    \/ put.result = "ok"
    \/ /\ put.api = "S3PutAsync"
       /\ put.pc = "S3PutSingleAsyncFinish"
       /\ put.pending = {}

RECURSIVE LengthOfParts(_, _)
\* the lengths of the UploadPart requests among the first n requests whose
\* part number is one of numbers, added up
LengthOfParts(n, numbers) ==
    IF n = 0 THEN 0
    ELSE (IF put.reqs[n].api = "UploadPart"
             /\ put.reqs[n].part_number \in numbers
          THEN put.reqs[n].length ELSE 0)
         + LengthOfParts(n - 1, numbers)

\* the content length of the stored object
ObjectLength ==
    LET last == put.reqs[Len(put.reqs)]
    IN  IF last.api = "PutObject" THEN last.length
        ELSE LengthOfParts(
                 Len(put.reqs),
                 {last.parts[k].part_number : k \in 1..Len(last.parts)})

\* the call: HeadObject is sent and blocks
S3GetSize ==
    /\ head.pc = "idle"
    /\ head' = [head EXCEPT
                  !.pc = "HeadObject",
                  !.reqs = Append(@, HeadObjectRequest),
                  !.after_put = put.pc = "returned" /\ put.result = "ok"]
    /\ UNCHANGED <<put, notPutHead>>

\* HeadObject returns, s3.cpp:229-243: an error goes through CheckS3Error
\* to the caller, a success writes the content length to *size
HeadObjectReturns ==
    /\ head.pc = "HeadObject"
    /\ \E outcome \in HeadOutcomes :
        /\ outcome = "ok" => ObjectStored
        /\ outcome = "not_found" => ~ObjectStored
        /\ head' = [head EXCEPT
                      !.pc = "returned",
                      !.outcome = outcome,
                      !.result = CheckS3Error(outcome),
                      !.size = IF outcome = "ok" THEN ObjectLength ELSE @]
    /\ UNCHANGED <<put, notPutHead>>

\* a put and a S3GetSize of the same object, in any order
NextHead == NextPut \/ S3GetSize \/ HeadObjectReturns
SpecHead == Init /\ [][NextHead]_vars

(***************************************************************************)
(* SegmentBuf called by a get (s3.cpp:685, 753) and, before, during or     *)
(* after it, called on its own.                                            *)
(***************************************************************************)
\* a call before the get
SegmentBufBefore ==
    /\ get.pc = "idle"
    /\ CallSegmentBuf(GetSizes)

\* a call with the start and the size of the get, at any moment after the
\* get's own call
SegmentBufAgain ==
    /\ get.pc # "idle"
    /\ seg_start' = get.start
    /\ seg_size' = get.size
    /\ seg_res' = SegmentBuf(get.start, get.size)
    /\ UNCHANGED notSeg

NextSegAgain == NextGet \/ SegmentBufBefore \/ SegmentBufAgain
SpecSegAgain == Init /\ [][NextSegAgain]_vars

(***************************************************************************)
(* The semaphore on its own next to the asynchronous get, s3.cpp:681-724,  *)
(* which waits on a semaphore whose goal it may never have set.            *)
(***************************************************************************)
NextCsGet ==
    \/ NextCs
    \/ S3GetMultiAsync \/ AsyncGetPart \/ AsyncGetCallback
    \/ S3GetMultiAsyncFinish
SpecCsGet == Init /\ [][NextCsGet]_vars

(***************************************************************************)
(* Initialisation: S3Init, s3.cpp:203-213, and the first thing each public *)
(* operation does with the statics library_init and async_s3_client.       *)
(* A call, and the future it starts if it starts one, is followed up to    *)
(* its first remote call or to the point where it stops; arg is the size   *)
(* of a put or of a get and the number of files of a delete.  S3Init and   *)
(* the futures run on their own threads, with no lock on the statics.      *)
(***************************************************************************)
PublicOps ==
    {"S3GetSize", "S3Exists", "S3UploadOverwrite", "S3PutAsync",
     "S3DownloadRange", "S3GetAsync", "S3ListAsync", "S3Delete"}
LibArgs == {0, 1, kS3DefaultBufSize}

\* the operations that begin with GetS3Client(), s3.cpp:154-159, which
\* asserts library_init: S3GetSize (224), S3Exists (249), S3UploadOverwrite
\* (265 by S3PutSingleSync, 305), S3DownloadRange (752), and S3Delete with
\* files to delete (878 by S3SendDelete)
CallsGetS3Client(op, arg) ==
    \/ op \in {"S3GetSize", "S3Exists", "S3UploadOverwrite", "S3DownloadRange"}
    \/ op = "S3Delete" /\ arg > 0

\* the operations that assert library_init themselves: S3PutAsync by
\* S3PutSingleAsync (580) or S3PutMultiAsync1 (425), and S3ListAsync (823)
AssertsLibraryInit(op, arg) == op \in {"S3PutAsync", "S3ListAsync"}

\* a call through the null async_s3_client is undefined: the process may
\* die there, or go on as if the client were there
NullClientEnds == {"segfault", "remote"}

\* how the call itself ends on the caller's thread: stopped by the
\* assertion, returned with nothing to do, at its first remote call, or
\* returned with the handle of a future: S3PutAsync (627, 641), S3ListAsync
\* (826) and S3GetAsync of a range that is not empty (733) hand their work
\* to a future, and of these only S3ListAsync asserts before it starts it
CallEnds(op, arg, library_init) ==
    IF CallsGetS3Client(op, arg) \/ op = "S3ListAsync"
    THEN IF ~library_init THEN {"asserted"}
         ELSE IF op = "S3ListAsync" THEN {"future"}
         ELSE IF op = "S3DownloadRange" /\ arg = 0 THEN {"returned"}
         ELSE {"remote"}
    ELSE IF op = "S3PutAsync" \/ (op = "S3GetAsync" /\ arg > 0)
    THEN {"future"}
    ELSE {"returned"}

\* how the future ends up, with the statics as they are when it runs: the
\* future of S3PutAsync begins with the assertion; past it, and in the other
\* two at once, the first remote call goes through async_s3_client (445,
\* 611, 714, 836)
FutureEnds(op, library_init, async_s3_client) ==
    IF op = "S3PutAsync" /\ ~library_init THEN {"asserted"}
    ELSE IF async_s3_client = "null" THEN NullClientEnds
    ELSE {"remote"}

\* whether the future reads async_s3_client: it does once past its
\* assertion if it has one
TouchesAsyncClient(op, arg, library_init) ==
    \/ AssertsLibraryInit(op, arg) /\ library_init
    \/ op = "S3GetAsync" /\ arg > 0

\* S3Init is called, s3.cpp:203-205: library_init is set first
S3Init ==
    /\ lib.init_pc = "idle"
    /\ \A i \in 1..Len(lib.calls) :
           lib.calls[i].end \notin {"asserted", "segfault"}
    /\ lib' = [lib EXCEPT !.library_init = TRUE, !.init_pc = "InitAPI"]
    /\ UNCHANGED notLib

\* S3Init goes on, s3.cpp:206-212: past InitAPI and the executor it sets
\* async_s3_client and returns
S3InitReturns ==
    /\ lib.init_pc = "InitAPI"
    /\ \A i \in 1..Len(lib.calls) :
           lib.calls[i].end \notin {"asserted", "segfault"}
    /\ lib' = [lib EXCEPT !.async_s3_client = "client",
                          !.init_pc = "returned"]
    /\ UNCHANGED notLib

\* a public operation is called and runs on the caller's thread up to its
\* end there.  at_call is library_init at the call; library_init is what it
\* was when the operation last acted
CallPublicOp ==
    /\ Len(lib.calls) < MaxLibCalls
    /\ \A i \in 1..Len(lib.calls) :
           lib.calls[i].end \notin {"asserted", "segfault"}
    /\ \E op \in PublicOps, arg \in LibArgs :
        \E end \in CallEnds(op, arg, lib.library_init) :
            lib' = [lib EXCEPT
                      !.calls = Append(@,
                          [op |-> op, arg |-> arg,
                           at_call |-> lib.library_init,
                           library_init |-> lib.library_init,
                           touched |-> FALSE,
                           end |-> end])]
    /\ UNCHANGED notLib

\* the future of an earlier call runs, on its own thread, up to its first
\* remote call or to the point where it stops
PublicOpFuture ==
    /\ \A i \in 1..Len(lib.calls) :
           lib.calls[i].end \notin {"asserted", "segfault"}
    /\ \E i \in 1..Len(lib.calls) :
        /\ lib.calls[i].end = "future"
        /\ \E end \in FutureEnds(lib.calls[i].op, lib.library_init,
                                 lib.async_s3_client) :
            lib' = [lib EXCEPT
                      !.calls[i].library_init = lib.library_init,
                      !.calls[i].touched =
                          TouchesAsyncClient(lib.calls[i].op, lib.calls[i].arg,
                                             lib.library_init),
                      !.calls[i].end = end]
    /\ UNCHANGED notLib

NextLib == S3Init \/ S3InitReturns \/ CallPublicOp \/ PublicOpFuture
SpecLib == Init /\ [][NextLib]_vars

(***************************************************************************)
(* The name-server client: HttpNameServerClient::Create and Update,        *)
(* HttpNameServerClient.cpp:63-101, called on the host with communicator   *)
(* ID id.  http is what the POST or PUT, if it is made, comes back with.   *)
(***************************************************************************)
Hosts == 0..MaxHost
HttpResults == {"ok", "error"}
NoVersion == -1

\* BuildUrl, HttpNameServerClient.cpp:30-33: it has no failing path
BuildUrl == [ok |-> TRUE, url |-> <<"prefix", "rdgs/", "name">>]

\* the request of Create (HttpPostJson, line 71) and of Update (HttpPutJson
\* with the expected version in the query string, lines 91-92)
HttpRequest(method, old_version) ==
    [method |-> method, url |-> BuildUrl.url, expected_version |-> old_version]
NoRequest == [method |-> "none", url |-> <<>>, expected_version |-> NoVersion]

\* res after the block of host 0, lines 67-76 and 87-97
ResOnHost(id, http) ==
    IF id = 0
    THEN IF BuildUrl.ok THEN http ELSE "url_error"
    ELSE "ok"

\* one call as Create and Update begin it.  On host 0 the request is sent
\* and the call waits for its answer inside HttpPostJson or HttpPutJson:
\* res, notified and returned are not there yet.  On any other host the
\* call skips the block and is over
NsCall(op, id, old_version) ==
    IF id = 0 /\ BuildUrl.ok
    THEN [op |-> op, id |-> id,
          req |-> HttpRequest(IF op = "Create" THEN "POST" ELSE "PUT",
                              old_version),
          pc |-> IF op = "Create" THEN "HttpPostJson" ELSE "HttpPutJson",
          res |-> "none", notified |-> FALSE, returned |-> "none"]
    ELSE [op |-> op, id |-> id, req |-> NoRequest, pc |-> "returned",
          res |-> ResOnHost(id, "ok"),
          notified |-> ResOnHost(id, "ok") # "ok",
          returned |-> ResOnHost(id, "ok")]

\* HttpNameServerClient::Create is called, lines 63-71, on a host that is
\* not inside a call
Create ==
    /\ Len(ns) < MaxNsCalls
    /\ \E id \in Hosts :
        /\ \A i \in 1..Len(ns) : ns[i].id = id => ns[i].pc = "returned"
        /\ ns' = Append(ns, NsCall("Create", id, NoVersion))
    /\ UNCHANGED notNs

\* HttpPostJson returns and Create goes on to its end, lines 71-79: it
\* notifies on a failure and returns ResultSuccess()
CreateReturns ==
    /\ \E i \in 1..Len(ns), http \in HttpResults :
        /\ ns[i].pc = "HttpPostJson"
        /\ ns' = [ns EXCEPT ![i].res = ResOnHost(ns[i].id, http),
                            ![i].notified = ResOnHost(ns[i].id, http) # "ok",
                            ![i].returned = "ok",
                            ![i].pc = "returned"]
    /\ UNCHANGED notNs

\* HttpNameServerClient::Update is called, lines 82-92, on a host that is
\* not inside a call
Update ==
    /\ Len(ns) < MaxNsCalls
    /\ \E id \in Hosts, old_version \in 0..MaxVersion :
        /\ \A i \in 1..Len(ns) : ns[i].id = id => ns[i].pc = "returned"
        /\ ns' = Append(ns, NsCall("Update", id, old_version))
    /\ UNCHANGED notNs

\* HttpPutJson returns and Update goes on to its end, lines 92-100: it
\* notifies on a failure and returns res
UpdateReturns ==
    /\ \E i \in 1..Len(ns), http \in HttpResults :
        /\ ns[i].pc = "HttpPutJson"
        /\ ns' = [ns EXCEPT ![i].res = ResOnHost(ns[i].id, http),
                            ![i].notified = ResOnHost(ns[i].id, http) # "ok",
                            ![i].returned = ResOnHost(ns[i].id, http),
                            ![i].pc = "returned"]
    /\ UNCHANGED notNs

NextNs == Create \/ CreateReturns \/ Update \/ UpdateReturns
SpecNs == Init /\ [][NextNs]_vars

(***************************************************************************)
(* Properties of SegmentBuf.                                               *)
(***************************************************************************)
RECURSIVE SumLengths(_, _)
SumLengths(parts, n) ==
    IF n = 0 THEN 0
    ELSE (parts[n].end - parts[n].start) + SumLengths(parts, n - 1)

SegParts == Parts(seg_res.view)

\* C1: for a range of size > 0 the parts SegmentBuf produces are contiguous,
\* pairwise non-overlapping, each with start < end; the first starts at the
\* range's start, the last ends at start + size, and the lengths add up to
\* size.
C1_PartsCoverRange ==
    (seg_res.status = "ok" /\ seg_size > 0) =>
        LET p == SegParts
            n == Len(p)
        IN  /\ n > 0
            /\ \A i \in 1..n : p[i].start < p[i].end
            /\ \A i \in 1..(n - 1) : p[i].end = p[i + 1].start
            /\ \A i, j \in 1..n :
                   i < j => (p[i].end <= p[j].start /\ p[i].start < p[j].start)
            /\ p[1].start = seg_start
            /\ p[n].end = seg_start + seg_size
            /\ SumLengths(p, n) = seg_size

\* a range that does not start at 0, of several parts, the last one shorter
C1_Witness ==
    /\ seg_res.status = "ok"
    /\ seg_start > 0
    /\ Len(SegParts) >= 3
    /\ seg_size % kS3DefaultBufSize # 0

\* C2 as stated, in the case the claim singles out: when
\* size / kS3DefaultBufSize > kS3MaxMultiPart, SegmentBuf fails explicitly or
\* the enlarged segment size yields at most kS3MaxMultiPart parts.
C2_AtMostMaxParts ==
    (seg_res.status = "ok"
        /\ (seg_size \div kS3DefaultBufSize) > kS3MaxMultiPart) =>
        NumSegments(seg_res.view) <= kS3MaxMultiPart

\* the one way to cut [start, start + size) into segments of segment_size
\* units: nothing for an empty range; otherwise the first part begins at
\* start, each part begins where the one before it ends, every part but the
\* last is a whole segment, the last is what is left and ends at the end of
\* the range, and each part's place in the buffer is its distance from
\* start.  Written from the inputs alone: no two sequences satisfy it
Cuts(p, start, size, segment_size) ==
    /\ size = 0 => p = <<>>
    /\ size > 0 =>
        /\ Len(p) > 0
        /\ p[1].start = start
        /\ p[Len(p)].end = start + size
        /\ \A i \in 1..Len(p) :
            /\ i < Len(p) => /\ p[i].end - p[i].start = segment_size
                             /\ p[i + 1].start = p[i].end
            /\ p[i].end - p[i].start \in 1..segment_size
            /\ p[i].dest = p[i].start - start
            /\ p[i].start_rem = 0 /\ p[i].end_rem = 0 /\ p[i].dest_rem = 0

\* C24: whatever the state of the program in which SegmentBuf is called, by
\* a get or on its own, before the get or at any moment after the get's
\* call, the part sequence it returns is the one its inputs (the start, the
\* size and the segment size, here kS3DefaultBufSize) determine; so a call
\* on its own with the start and the size of a get returns the parts the
\* get's call returned.
C24_SameInputsSameParts ==
    /\ seg_res.status # "none" =>
        /\ seg_res.status = "ok"
        /\ seg_res.view.seg_size = kS3DefaultBufSize
        /\ Cuts(Parts(seg_res.view), seg_start, seg_size, kS3DefaultBufSize)
    /\ get.pc \notin {"idle", "GetFuture"} =>
        Cuts(get.parts, get.start, get.size, kS3DefaultBufSize)
    /\ (seg_res.status # "none" /\ get.pc \notin {"idle", "GetFuture"}
            /\ seg_start = get.start /\ seg_size = get.size) =>
        Parts(seg_res.view) = get.parts

\* SegmentBuf was called on its own with the inputs of a get of three parts
\* whose requests are all answered
C24_Witness ==
    /\ seg_res.status = "ok"
    /\ seg_start = get.start
    /\ seg_size = get.size
    /\ get.start > 0
    /\ Len(get.parts) = 3
    /\ get.pc = "returned"

(***************************************************************************)
(* Properties of the CountingSemaphore on its own.                         *)
(***************************************************************************)
\* C5: after SetGoal(n), a GoalMinusOne call beyond the n-th is detected as
\* a fatal error; the remaining count never goes below zero and is never
\* silently clamped (while no error is detected it is exactly goal - calls).
C5_OverDecrementIsFatal ==
    /\ cs.remaining >= 0
    /\ cs_calls > cs.goal => cs.fatal
    /\ ~cs.fatal => cs.remaining = cs.goal - cs_calls

\* the goal was n > 0 and the (n + 1)-th decrement has just aborted
C5_Witness ==
    /\ cs.fatal
    /\ cs.goal > 0
    /\ cs_calls = cs.goal + 1
    /\ cs.remaining = 0

\* a cycle is unfinished: some decrements arrived, others are still due
Unfinished(s) == s.remaining # 0 /\ s.remaining # s.goal

\* what SetGoal would do in the present state
SetGoalContract ==
    \A n \in 0..MaxGoal :
        IF Unfinished(cs)
        THEN /\ SetGoal(cs, n).fatal
             /\ SetGoal(cs, n).goal = cs.goal
             /\ SetGoal(cs, n).remaining = cs.remaining
        ELSE /\ SetGoal(cs, n).fatal = cs.fatal
             /\ SetGoal(cs, n).goal = n
             /\ SetGoal(cs, n).remaining = n

\* no step taken during an unfinished cycle changes the goal or raises the
\* remaining count, and a step that fails changes neither
UnfinishedKeepsGoal ==
    (Unfinished(cs) /\ ~cs.fatal) =>
        /\ cs'.goal = cs.goal
        /\ cs'.remaining <= cs.remaining
        /\ cs'.fatal => cs'.remaining = cs.remaining

\* C26: SetGoal during an unfinished cycle fails and leaves goal and
\* remaining as they were; on a fresh semaphore, on one whose goal is
\* untouched and on one whose count reached zero it succeeds and sets both
\* to the new goal.
C26_SetGoalRefusedMidCycle ==
    /\ []SetGoalContract
    /\ [][UnfinishedKeepsGoal]_vars

\* SetGoal was refused in the middle of a cycle (a refused decrement counts
\* as a call, a refused SetGoal does not)
C26_Witness ==
    /\ cs.fatal
    /\ 0 < cs.remaining
    /\ cs.remaining < cs.goal
    /\ cs_calls = cs.goal - cs.remaining

\* a step of the semaphore changes the remaining count only as SetGoal does
\* (to the goal) or as GoalMinusOne does (down by one, the goal kept)
RemainingStep ==
    cs'.remaining # cs.remaining =>
        \/ cs'.remaining = cs'.goal /\ cs_calls' = 0
        \/ cs'.remaining = cs.remaining - 1 /\ cs'.goal = cs.goal
               /\ cs_calls' = cs_calls + 1

\* C30: 0 <= remaining <= goal in every reachable state, remaining changes
\* only by SetGoal (to the goal) and by GoalMinusOne (down by one), and a
\* waiter is parked only while remaining > 0.
C30_SemaphoreInvariant ==
    /\ [](0 <= cs.remaining /\ cs.remaining <= cs.goal)
    /\ [](cs.waiter = "parked" => cs.remaining > 0)
    /\ [][RemainingStep]_vars

\* a goal was set, some decrements arrived, and the waiter is parked on the
\* rest
C30_Witness ==
    /\ cs.waiter = "parked"
    /\ cs_pc = "waiting"
    /\ 0 < cs.remaining
    /\ cs.remaining < cs.goal
    /\ cs_calls = cs.goal - cs.remaining
    /\ ~cs.fatal

\* S3GetMultiAsync was called on an empty range
EmptyAsyncGet == get.api = "S3GetMultiAsync" /\ get.size = 0

\* a call of WaitGoal that finds nothing remaining returns in the same step:
\* on the semaphore on its own, and in S3GetMultiAsyncFinish after an empty
\* S3GetMultiAsync
WaitReturnsAtOnce ==
    /\ (cs.remaining = 0 /\ cs_pc = "idle" /\ cs_pc' # cs_pc) =>
           (cs_pc' = "returned" /\ cs'.waiter = "none")
    /\ (EmptyAsyncGet /\ get.pc = "S3GetMultiAsyncFinish" /\ get' # get) =>
           (get'.pc = "returned" /\ get'.result = "ok")

\* C25: WaitGoal does not block when no goal was set or the goal is 0: no
\* waiter is ever parked on a semaphore whose goal is 0, a call that finds
\* the count at 0 returns at once, and S3GetMultiAsyncFinish after a
\* S3GetMultiAsync of an empty range, which never set the goal, returns.
C25_NoGoalNoWait ==
    /\ [](cs.waiter = "parked" => cs.goal > 0)
    /\ [](EmptyAsyncGet =>
             (get.sema = NewSemaphore
                 /\ get.pc \in {"S3GetMultiAsyncFinish", "returned"}))
    /\ [][WaitReturnsAtOnce]_vars

\* S3GetMultiAsyncFinish has returned after a S3GetMultiAsync of an empty
\* range, and a WaitGoal on the semaphore on its own after SetGoal(0)
C25_Witness ==
    /\ EmptyAsyncGet
    /\ get.pc = "returned"
    /\ get.sema.goal = 0
    /\ cs_pc = "returned"
    /\ cs.goal = 0
    /\ cs_calls = 0

(***************************************************************************)
(* Properties of the operation group.                                      *)
(***************************************************************************)
Registered == 1..og_n
RanLabels == [i \in 1..Len(og_ran) |-> og_ran[i].label]
\* an operation fails when its future resolves with an error or, the future
\* having succeeded, its continuation returns an error
Fails(l) == og_fut[l].state = "err" \/ og_cont[l] = "err"
ErrorOf(l) ==
    IF og_fut[l].state = "err" THEN FutureError(l) ELSE CompleteError(l)
FirstFailing == CHOOSE l \in Registered :
    Fails(l) /\ \A k \in Registered : Fails(k) => l <= k

\* C6: whatever the order in which the futures resolve, Finish runs the
\* continuations in the order of registration; once it has returned they
\* are exactly the labels 1, 2, ..., n in that order.
C6_ContinuationsInFifoOrder ==
    /\ \A i, j \in 1..Len(og_ran) : i < j => og_ran[i].label < og_ran[j].label
    /\ og_pc = "finished" => RanLabels = [i \in Registered |-> i]

\* three operations whose futures resolved last-first-second, drained
C6_Witness ==
    /\ og_pc = "finished"
    /\ og_n = 3
    /\ og_order = <<3, 1, 2>>
    /\ RanLabels = <<1, 2, 3>>

\* C7: when a registered future resolved with an error, Finish returns the
\* error of the first failing operation in registration order.
C7_FirstErrorReturned ==
    (og_pc = "finished" /\ \E l \in Registered : og_fut[l].state = "err") =>
        og_result = ErrorOf(FirstFailing)

\* the second and the third future failed: the second one's error is returned
C7_Witness ==
    /\ og_pc = "finished"
    /\ og_n = 3
    /\ og_fut[1].state = "ok" /\ og_cont[1] = "ok"
    /\ og_fut[2].state = "err"
    /\ og_fut[3].state = "err"
    /\ og_result = FutureError(2)

\* C8: no continuation runs twice, and when Finish has returned the
\* continuation of every registered operation has run exactly once, those of
\* a failed operation and of the operations after it included.
C8_EveryContinuationRanOnce ==
    /\ \A l \in Labels :
           Cardinality({i \in 1..Len(og_ran) : og_ran[i].label = l}) <= 1
    /\ og_pc = "finished" =>
           \A l \in Registered :
               Cardinality({i \in 1..Len(og_ran) : og_ran[i].label = l}) = 1

\* A ok, B error, C ok: all three continuations ran
C8_Witness ==
    /\ og_pc = "finished"
    /\ og_n = 3
    /\ og_fut[1].state = "ok"
    /\ og_fut[2].state = "err"
    /\ og_fut[3].state = "ok"
    /\ Len(og_ran) = 3

\* C9: Finish returns a non-error result only if every registered operation
\* resolved successfully and its continuation returned success.
C9_SuccessMeansAllSucceeded ==
    (og_pc = "finished" /\ og_result = NoError) =>
        \A l \in Registered : ~Fails(l)

\* a single failed operation among several: Finish returned an error
C9_Witness ==
    /\ og_pc = "finished"
    /\ og_n >= 2
    /\ Cardinality({l \in Registered : Fails(l)}) = 1
    /\ og_result # NoError

\* the operations registered with AddReturnsOp whose future resolved to a
\* value
ResolvedWithValue ==
    {l \in Registered : og_fut[l].state = "ok" /\ og_fut[l].value # DefaultVal}

\* C23: the continuation of an AddReturnsOp operation whose future resolved
\* to the value v is called with v, once, and at the place in the order of
\* continuations that its registration has among all registrations, AddOp's
\* included.
C23_ContinuationGetsTheValue ==
    /\ \A i \in 1..Len(og_ran) :
           og_ran[i].label \in ResolvedWithValue =>
               /\ og_ran[i].arg = og_fut[og_ran[i].label].value
               /\ og_ran[i].label = i
               /\ \A j \in 1..Len(og_ran) :
                      og_ran[j].label = og_ran[i].label => j = i
    /\ og_pc = "finished" =>
           \A l \in ResolvedWithValue :
               \E i \in 1..Len(og_ran) : og_ran[i].label = l

\* an AddOp operation between two AddReturnsOp operations; the futures of
\* these resolved to 2 and to 1, the later one first, and Finish has
\* returned
C23_Witness ==
    /\ og_pc = "finished"
    /\ og_ran = <<[label |-> 1, arg |-> 2], [label |-> 2, arg |-> NoArg],
                  [label |-> 3, arg |-> 1]>>
    /\ og_order = <<3, 2, 1>>

(***************************************************************************)
(* Properties of put.                                                      *)
(***************************************************************************)
IsUploadPart(r) == r.api = "UploadPart"
UploadPartRequests == SelectSeq(put.reqs, IsUploadPart)
CompleteSent == \E n \in 1..Len(put.reqs) :
    put.reqs[n].api = "CompleteMultipartUpload"
\* the upload loop has been left
PartsDispatched ==
    \/ put.pc \in {"S3PutMultiAsync3", "S3PutMultiAsyncFinish",
                   "CompleteMultipartUpload"}
    \/ CompleteSent

\* the semaphore of an asynchronous put has counted every completion
PutSemaAtZero ==
    /\ put.api = "S3PutAsync"
    /\ put.pc # "aborted"
    /\ put.sema.goal > 0
    /\ put.sema.remaining = 0
\* WaitGoal has returned to S3PutMultiAsync3 or S3PutSingleAsyncFinish
PutWaitGoalReturned == put.pc \in {"S3PutMultiAsyncFinish", "returned"}

\* C4: once the goal n has been set and n GoalMinusOne calls have been made,
\* in any interleaving with the waiter, WaitGoal returns; the waiter is never
\* left parked with nothing remaining (no wake-up is lost).
C4_WaitGoalReturns ==
    /\ [](put.sema.waiter = "parked" => put.sema.remaining > 0)
    /\ (PutSemaAtZero ~> PutWaitGoalReturned)

\* the waiter parked before the last of several completions and was woken
C4_Witness ==
    /\ put.api = "S3PutAsync"
    /\ Len(put.parts_) >= 2
    /\ put.sema.goal = Len(put.parts_)
    /\ put.sema.remaining = 0
    /\ put.sema.waiter = "notified"

\* C10: a multipart put of N parts sends one UploadPart request per part, the
\* k-th request carrying part number k, the upload id and the k-th part's
\* length and place in the buffer; never more than N, and exactly N once the
\* upload loop is left.
C10_OneUploadPerPart ==
    LET ups == UploadPartRequests
        N == Len(put.parts_)
    IN  /\ Len(ups) <= N
        /\ \A k \in 1..Len(ups) :
               /\ ups[k].part_number = k
               /\ ups[k].upload_id = UploadId
               /\ ups[k].length = put.parts_[k].end - put.parts_[k].start
               /\ ups[k].dest = put.parts_[k].dest
        /\ put.parts_ # <<>> =>
               put.parts_ = Parts(SegmentBuf(0, put.size).view)
        /\ PartsDispatched => Len(ups) = N

\* an asynchronous put of three parts, all uploaded, has returned
C10_Witness ==
    /\ put.api = "S3PutAsync"
    /\ put.pc = "returned"
    /\ put.result = "ok"
    /\ Len(put.parts_) = 3
    /\ Len(UploadPartRequests) = 3

\* C11: whatever the order in which the part uploads complete, the manifest
\* sent with CompleteMultipartUpload has one entry per part, in ascending
\* part number 1..N, and entry k carries the tag the remote store returned
\* for part number k.
C11_ManifestInPartOrder ==
    \A n \in 1..Len(put.reqs) :
        put.reqs[n].api = "CompleteMultipartUpload" =>
            LET manifest == put.reqs[n].parts
            IN  /\ Len(manifest) = Len(put.parts_)
                /\ \A k \in 1..Len(manifest) :
                       manifest[k] = [part_number |-> k, etag |-> ETag(k)]

\* the manifest of an asynchronous put was sent after the uploads of its
\* three parts completed in the order 3, 1, 2
C11_Witness ==
    /\ put.api = "S3PutAsync"
    /\ CompleteSent
    /\ put.order = <<3, 1, 2>>

\* the part numbers whose upload has completed successfully
Succeeded == {put.order[j] : j \in 1..Len(put.order)}

\* the parts whose tag is in part_e_tags_
TagsStored ==
    {k \in 1..Len(put.part_e_tags_) : put.part_e_tags_[k] # EmptyString}

\* the parts whose callback has counted: finished++ in S3UploadOverwrite,
\* GoalMinusOne in S3PutMultiAsync2
Counted ==
    IF put.api = "S3PutAsync" THEN Succeeded \ put.tagged ELSE Succeeded

\* the waiting thread would find its condition true
WaitWouldPass ==
    \/ /\ put.api = "S3UploadOverwrite"
       /\ put.pc = "UploadPartAsync"
       /\ put.i = Len(put.parts_)
       /\ put.finished >= Len(put.parts_)
    \/ /\ put.api = "S3PutAsync"
       /\ put.pc = "S3PutMultiAsync3"
       /\ ~WaitGoalBlocks(put.sema)

\* C31: a part is counted (finished++, GoalMinusOne) only after its tag is
\* in part_e_tags_, so whenever the waiting thread may go on to build the
\* manifest every entry of part_e_tags_ holds the tag of its part, and no
\* entry of a manifest that was sent is empty.
C31_TagBeforeCount ==
    /\ \A k \in Counted : put.part_e_tags_[k] = ETag(k)
    /\ Cardinality(Counted) <= Cardinality(TagsStored)
    /\ put.api = "S3UploadOverwrite" => put.finished = Cardinality(Counted)
    /\ put.api = "S3PutAsync" /\ put.impl # "none" =>
           put.sema.goal - put.sema.remaining = Cardinality(Counted)
    /\ WaitWouldPass => TagsStored = 1..Len(put.parts_)
    /\ \A n \in 1..Len(put.reqs) :
           put.reqs[n].api = "CompleteMultipartUpload" =>
               \A k \in 1..Len(put.reqs[n].parts) :
                   put.reqs[n].parts[k].etag # EmptyString

\* the last of three callbacks has stored its tag and has not yet called
\* GoalMinusOne: every tag is there and the waiter is still held back
C31_Witness ==
    /\ put.api = "S3PutAsync"
    /\ put.pc = "S3PutMultiAsync3"
    /\ put.order = <<2, 3, 1>>
    /\ put.tagged = {1}
    /\ put.sema.remaining = 1
    /\ TagsStored = {1, 2, 3}

\* a step that writes part_e_tags_ after it was sized is the callback of one
\* part k in flight: it writes element k, which was empty, and no other,
\* and the callback of k is then over
TagWrite ==
    (/\ Len(put'.part_e_tags_) = Len(put.part_e_tags_)
     /\ put'.part_e_tags_ # put.part_e_tags_) =>
        \E k \in put.pending :
            /\ k \in 1..Len(put.part_e_tags_)
            /\ put.part_e_tags_[k] = EmptyString
            /\ put'.part_e_tags_ = [put.part_e_tags_ EXCEPT ![k] = ETag(k)]
            /\ k \notin put'.pending
            /\ put'.order = Append(put.order, k)

\* C32: in a multipart session the callback of part i writes element i of
\* part_e_tags_ and no other, and each element is written at most once: the
\* callbacks in flight are for distinct parts, none of them for a part whose
\* element is written.
C32_TagsAtDistinctIndices ==
    /\ [][TagWrite]_vars
    /\ [](\A i, j \in 1..Len(put.order) :
              put.order[i] = put.order[j] => i = j)
    /\ [](put.pending \cap Succeeded = {})
    /\ [](TagsStored = Succeeded)

\* three callbacks of an asynchronous put are in flight at once after the
\* whole loop ran, and later all three have written, the last part first
C32_Witness ==
    /\ put.api = "S3PutAsync"
    /\ put.order = <<3, 2, 1>>
    /\ put.tagged = {1, 2, 3}
    /\ put.part_e_tags_ = <<ETag(1), ETag(2), ETag(3)>>

\* C12: in the synchronous and in the asynchronous multipart path,
\* CompleteMultipartUpload is not sent before every part has been dispatched
\* and every dispatched upload has completed successfully.
C12_CompleteAfterEveryPart ==
    CompleteSent =>
        /\ Len(put.parts_) > 0
        /\ Len(UploadPartRequests) = Len(put.parts_)
        /\ Succeeded = 1..Len(put.parts_)
        /\ put.pending = {}
        /\ put.tagged = {}
        /\ put.failed_part = 0

\* a synchronous put of three parts has sent CompleteMultipartUpload and
\* waits for its answer
C12_Witness ==
    /\ put.api = "S3UploadOverwrite"
    /\ put.pc = "CompleteMultipartUpload"
    /\ Len(put.parts_) = 3
    /\ CompleteSent

\* C13: once the upload of one part has failed, the session is over (the
\* callback ends the process, s3.cpp:379 and 516) and CompleteMultipartUpload
\* is not sent for it, whatever the other parts did.
C13_FailedPartFailsSession ==
    put.failed_part # 0 =>
        /\ put.pc = "aborted"
        /\ put.result = "none"
        /\ ~CompleteSent

\* in an asynchronous put of three parts, part 2 failed after the two others
\* had succeeded
C13_Witness ==
    /\ put.api = "S3PutAsync"
    /\ Len(put.parts_) = 3
    /\ put.failed_part = 2
    /\ Succeeded = {1, 3}

\* the phase of the upload session of an asynchronous multipart put, read
\* off the position of the future that S3PutAsync started (s3.cpp:641-654):
\* Created before S3PutMultiAsync1, Initiating while S3PutMultiAsync2 waits
\* for the upload id, Uploading from there until WaitGoal lets
\* S3PutMultiAsync3 through, Completing while S3PutMultiAsyncFinish waits,
\* Done when the future returns success, Failed when it returns an error or
\* the process is ended
SessionPhase ==
    IF put.api # "S3PutAsync" \/ put.size < kS3DefaultBufSize THEN "none"
    ELSE CASE put.pc = "MultiFuture" -> "Created"
           [] put.pc = "S3PutMultiAsync2" -> "Initiating"
           [] put.pc \in {"UploadPartAsync", "S3PutMultiAsync3"} -> "Uploading"
           [] put.pc = "S3PutMultiAsyncFinish" -> "Completing"
           [] put.pc = "returned" /\ put.result = "ok" -> "Done"
           [] OTHER -> "Failed"

\* the phase that follows a phase
NextPhase(p) ==
    CASE p = "none" -> "Created"
      [] p = "Created" -> "Initiating"
      [] p = "Initiating" -> "Uploading"
      [] p = "Uploading" -> "Completing"
      [] p = "Completing" -> "Done"
      [] OTHER -> p

SessionOver == SessionPhase \in {"Done", "Failed"}

\* one step of a session: it stays in its phase, moves to the next one or,
\* if it is not over, fails; once it is over nothing more is sent
PhaseStep ==
    /\ SessionPhase' \in
          {SessionPhase, NextPhase(SessionPhase)}
          \cup (IF SessionPhase \in {"none", "Done"} THEN {} ELSE {"Failed"})
    /\ SessionOver => put'.reqs = put.reqs

\* a step that fails the session can be taken now
CanFailNow == ENABLED (NextPut /\ SessionPhase' = "Failed")

\* C14: a session goes through Created, Initiating, Uploading, Completing,
\* Done in this order, one phase at a time and never back; after Done or
\* Failed no request is sent; and a session that is not over always comes,
\* by the steps of its own thread, to a state from which one step fails it.
C14_PhasesInOrder ==
    /\ [][PhaseStep]_vars
    /\ [](SessionPhase \notin {"none", "Done", "Failed"} => <>CanFailNow)

\* a session failed in its last phase: the completion request was sent and
\* the remote store refused it
C14_Witness ==
    /\ SessionPhase = "Failed"
    /\ put.pc = "returned"
    /\ CompleteSent

\* C28: when CreateMultipartUpload fails the put returns an error and sends
\* neither an UploadPart nor a CompleteMultipartUpload; every UploadPart
\* that is sent follows a create that succeeded and carries the upload id
\* of its response.
C28_FailedCreateEndsThePut ==
    /\ put.created \notin {"none", "ok"} =>
          /\ put.pc = "returned"
          /\ put.result \notin {"none", "ok"}
          /\ UploadPartRequests = <<>>
          /\ ~CompleteSent
    /\ \A n \in 1..Len(put.reqs) :
          put.reqs[n].api = "UploadPart" =>
              /\ put.created = "ok"
              /\ n > 1
              /\ put.reqs[1].api = "CreateMultipartUpload"
              /\ put.reqs[n].upload_id = UploadId
              /\ put.reqs[n].upload_id # EmptyString

\* S3PutAsync returned the error of a failed create, having sent the create
\* and nothing else
C28_Witness ==
    /\ put.api = "S3PutAsync"
    /\ put.created = "error"
    /\ put.pc = "returned"
    /\ put.result = "S3Error"
    /\ Len(put.reqs) = 1

\* the multipart session of S3PutAsync: S3PutMultiAsync1 has made its
\* PutMultiImpl
AsyncSession == put.api = "S3PutAsync" /\ put.impl # "none"

\* the callbacks that have called GoalMinusOne
Decremented == Len(put.order) - Cardinality(put.tagged)

\* C29: in the multipart session of S3PutAsync the goal is the part count
\* from before the first UploadPart is sent: no callback decrements a
\* semaphore without goal (which would abort), the count is the goal less
\* the callbacks that decremented, and once the loop is done the goal is
\* the number of UploadPart requests sent.
C29_GoalBeforeParts ==
    AsyncSession =>
        /\ put.sema.goal = Len(put.parts_)
        /\ put.sema.goal > 0
        /\ ~put.sema.fatal
        /\ put.sema.remaining = put.sema.goal - Decremented
        /\ Len(UploadPartRequests) <= put.sema.goal
        /\ put.pc = "aborted" => put.failed_part # 0
        /\ put.pc \in {"S3PutMultiAsync3", "S3PutMultiAsyncFinish"} =>
               Len(UploadPartRequests) = put.sema.goal
        /\ put.result = "ok" => Len(UploadPartRequests) = put.sema.goal

\* three parts were sent, two callbacks have decremented and the third has
\* stored its tag and not yet decremented
C29_Witness ==
    /\ AsyncSession
    /\ put.pc = "S3PutMultiAsync3"
    /\ put.sema.goal = 3
    /\ Len(UploadPartRequests) = 3
    /\ put.sema.remaining = 1
    /\ Cardinality(put.tagged) = 1

\* C33: when an asynchronous multipart put has returned to its caller, on
\* whatever path, the PutMultiImpl made by S3PutMultiAsync1 has been
\* deleted, and once it is deleted no callback that would touch it is in
\* flight or half-way.
C33_SessionReleased ==
    /\ (put.api = "S3PutAsync" /\ put.pc = "returned"
            /\ put.impl # "none") => put.impl = "deleted"
    /\ put.impl = "deleted" =>
           (put.pc = "returned" /\ put.pending = {} /\ put.tagged = {})

\* the requests of the put, by kind
RequestsOf(api) == SelectSeq(put.reqs, LAMBDA r : r.api = api)

\* C15: a put below kS3DefaultBufSize sends one PutObject and no multipart
\* request; a put of that size or more sends CreateMultipartUpload, then the
\* UploadParts, then CompleteMultipartUpload, and no PutObject.  Nothing in
\* the statement looks at put.api: S3UploadOverwrite and S3PutAsync take the
\* same route for every size.
C15_PutRouting ==
    put.api # "none" =>
        IF put.size < kS3DefaultBufSize
        THEN /\ \A n \in 1..Len(put.reqs) : put.reqs[n].api = "PutObject"
             /\ Len(put.reqs) <= 1
             /\ put.pc = "returned" => Len(put.reqs) = 1
        ELSE /\ RequestsOf("PutObject") = <<>>
             /\ \A n \in 1..Len(put.reqs) :
                    put.reqs[n].api =
                        IF n = 1 THEN "CreateMultipartUpload"
                        ELSE IF n <= 1 + Len(put.parts_) THEN "UploadPart"
                        ELSE "CompleteMultipartUpload"
             /\ Len(put.reqs) <= 2 + Len(put.parts_)
             /\ (put.pc = "returned" /\ put.result = "ok") =>
                    Len(put.reqs) = 2 + Len(put.parts_)

\* an asynchronous put of exactly kS3DefaultBufSize has returned success
C15_Witness ==
    /\ put.api = "S3PutAsync"
    /\ put.size = kS3DefaultBufSize
    /\ put.pc = "returned"
    /\ put.result = "ok"

(***************************************************************************)
(* Properties of get.                                                      *)
(***************************************************************************)
\* C3: for a range of size 0 the part sequence is empty, and S3DownloadRange
\* and S3GetMultiAsync return success without sending any request.
C3_EmptyRangeNoRequest ==
    (get.pc # "idle" /\ get.size = 0) =>
        /\ Parts(SegmentBuf(get.start, get.size).view) = <<>>
        /\ get.parts = <<>>
        /\ get.reqs = <<>>
        /\ get.pending = {}
        /\ get.api = "S3DownloadRange" =>
               (get.pc = "returned" /\ get.result = "ok")
        /\ get.api = "S3GetMultiAsync" => get.multi_result = "ok"

\* S3GetMultiAsync was called on an empty range that does not start at 0,
\* and S3GetMultiAsyncFinish after it
C3_Witness ==
    /\ get.api = "S3GetMultiAsync"
    /\ get.size = 0
    /\ get.start > 0
    /\ get.pc = "returned"

\* the bytes of the caller's buffer, counted from its start, that the
\* request of part k may write, and the bytes of the object it asks for
Window(k) == get.reqs[k].dest .. (get.reqs[k].dest + get.reqs[k].buflen - 1)
Range(k) == get.reqs[k].first .. get.reqs[k].last

\* C19: the window of the caller's buffer given to the request of a part
\* lies inside the part's own destination, end - start bytes at dest; the
\* windows of two parts do not overlap and none goes beyond the buffer.
C19_WindowsInsideParts ==
    \A k \in 1..Len(get.reqs) :
        LET part == get.parts[k]
        IN  /\ Window(k) \subseteq
                   part.dest .. (part.dest + (part.end - part.start) - 1)
            /\ Window(k) \subseteq 0 .. (get.size - 1)
            /\ \A j \in 1..(k - 1) : Window(j) \cap Window(k) = {}

\* C20: the request of a part [start, end) asks for the bytes start..end-1;
\* the ranges of two parts of a get do not overlap, and once every part's
\* request is sent the ranges together are the bytes
\* get.start .. get.start + get.size - 1.
C20_RangesPartitionTheGet ==
    /\ \A k \in 1..Len(get.reqs) :
           /\ get.reqs[k].first = get.parts[k].start
           /\ get.reqs[k].last = get.parts[k].end - 1
           /\ \A j \in 1..(k - 1) : Range(j) \cap Range(k) = {}
           /\ Range(k) \subseteq get.start .. (get.start + get.size - 1)
    /\ (get.parts # <<>> /\ Len(get.reqs) = Len(get.parts)) =>
           UNION {Range(k) : k \in 1..Len(get.reqs)} =
               get.start .. (get.start + get.size - 1)

\* the three requests of a get that does not start at 0 and whose last part
\* is shorter than the others have been sent
C20_Witness ==
    /\ get.start > 0
    /\ Len(get.parts) = 3
    /\ Len(get.reqs) = 3
    /\ get.size % kS3DefaultBufSize # 0

(***************************************************************************)
(* Properties of delete.                                                   *)
(***************************************************************************)
\* the keys of batch b, and the number of keys sent so far
BatchKeys(b) == {del.reqs[b].keys[k] : k \in 1..Len(del.reqs[b].keys)}
RECURSIVE KeysSent(_)
KeysSent(b) == IF b = 0 THEN 0 ELSE Len(del.reqs[b].keys) + KeysSent(b - 1)
\* ceil(n / kS3MaxDelete)
BatchesNeeded(n) == (n + kS3MaxDelete - 1) \div kS3MaxDelete

\* C16: S3Delete of n > 0 keys sends ceil(n / kS3MaxDelete) DeleteObjects
\* requests; every batch has at least one and at most kS3MaxDelete keys,
\* only the last may have fewer than kS3MaxDelete, and every key is in
\* exactly one batch.
C16_DeleteBatches ==
    LET B == Len(del.reqs)
    IN  /\ \A b \in 1..B :
               /\ Len(del.reqs[b].keys) >= 1
               /\ Len(del.reqs[b].keys) <= kS3MaxDelete
               /\ Cardinality(BatchKeys(b)) = Len(del.reqs[b].keys)
               /\ b < B => Len(del.reqs[b].keys) = kS3MaxDelete
               /\ \A c \in 1..(b - 1) : BatchKeys(b) \cap BatchKeys(c) = {}
        /\ UNION {BatchKeys(b) : b \in 1..B} \subseteq 1..del.n
        /\ B <= BatchesNeeded(del.n)
        /\ del.pc = "returned" =>
               /\ B = BatchesNeeded(del.n)
               /\ KeysSent(B) = del.n
               /\ UNION {BatchKeys(b) : b \in 1..B} = 1..del.n

\* a delete of 2 * kS3MaxDelete + 1 keys has returned: three batches, the
\* last of one key
C16_Witness ==
    /\ del.pc = "returned"
    /\ del.n = 2 * kS3MaxDelete + 1
    /\ Len(del.reqs) = 3
    /\ Len(del.reqs[3].keys) = 1

\* the batches that failed
FailedBatches == {b \in 1..Len(del.outcomes) : del.outcomes[b] # "ok"}
FirstFailedBatch == CHOOSE b \in FailedBatches : \A c \in FailedBatches : b <= c

\* C17: a failed batch does not stop S3Delete: every batch is still sent and
\* answered; what S3Delete returns is the error of the first batch that
\* failed, whatever the later batches did, and success only if no batch
\* failed.
C17_DeleteFirstError ==
    del.pc = "returned" =>
        /\ Len(del.outcomes) = BatchesNeeded(del.n)
        /\ Len(del.reqs) = BatchesNeeded(del.n)
        /\ del.result = IF FailedBatches = {} THEN "ok"
                        ELSE SendDeleteResult(del.outcomes[FirstFailedBatch])

\* a delete of three batches has returned; the second batch failed, the
\* first and the third did not
C17_Witness ==
    /\ del.pc = "returned"
    /\ Len(del.outcomes) = 3
    /\ FailedBatches = {2}
    /\ del.result = "S3Error"

(***************************************************************************)
(* Properties of list.                                                     *)
(***************************************************************************)
\* the keys of every page received
KeysListed == UNION {lst.pages[p].contents : p \in 1..Len(lst.pages)}

\* C18: when the future of S3ListAsync returns success, the caller's set
\* holds, for every key object/name of every page received, the name; the
\* pages received are those up to and including the first one that is not
\* truncated, and no request was sent after that page.
C18_ListHoldsEveryPage ==
    /\ lst.pc = "returned" =>
          /\ lst.result = "ok"
          /\ \A key \in KeysListed :
                 \E name \in lst.list :
                     key = ListedObject \o <<"/">> \o name
          /\ lst.initial \subseteq lst.list
          /\ Len(lst.pages) >= 1
          /\ ~lst.pages[Len(lst.pages)].truncated
    /\ \A p \in 1..Len(lst.pages) :
          (lst.pc # "aborted" /\ ~lst.pages[p].truncated) =>
              /\ p = Len(lst.pages)
              /\ Len(lst.reqs) = p
              /\ lst.pc = "returned"

\* a listing of three pages has returned, and the last two pages had
\* entries the first did not have
C18_Witness ==
    /\ lst.pc = "returned"
    /\ Len(lst.pages) = 3
    /\ lst.pages[1].contents = {<<"d", "/", "a">>}
    /\ lst.pages[2].contents = {<<"d", "/", "b">>}
    /\ lst.pages[3].contents = {<<"d", "/", "a", "/", "b">>}
    /\ lst.initial = {<<"z">>}

(***************************************************************************)
(* Properties of headSize.                                                 *)
(***************************************************************************)
\* C21: S3GetSize sends one HeadObject; when the object does not exist it
\* returns, without ending the process, a result that is not the result of
\* a generic service error.
C21_NotFoundIsItsOwnResult ==
    (head.pc = "returned" /\ head.outcome = "not_found") =>
        /\ Len(head.reqs) = 1
        /\ head.result # "ok"
        /\ head.result # CheckS3Error("error")

\* C22: when S3GetSize is called after a put of n bytes has returned
\* success, by PutObject or by the multipart requests, and succeeds, the
\* size it gives back is n.
C22_HeadSizeAfterPut ==
    (head.pc = "returned" /\ head.after_put /\ head.result = "ok") =>
        head.size = put.size

\* S3GetSize gave the size of a put of 4 units that S3UploadOverwrite had
\* sent as a single PutObject
C22_Witness ==
    /\ put.api = "S3UploadOverwrite"
    /\ put.size = 4
    /\ RequestsOf("PutObject") # <<>>
    /\ head.pc = "returned"
    /\ head.after_put
    /\ head.size = 4

\* C27: a successful outcome gives success, a failed outcome with the
\* permanent-redirect code gives AWSWrongRegion and any other failed outcome
\* gives S3Error; the operation that was redirected returns with that
\* result and has sent no request after the one that was redirected.
C27_ErrorsNormalised ==
    /\ head.pc = "returned" =>
          /\ head.outcome = "ok" => head.result = "ok"
          /\ head.outcome = "moved" => head.result = "AWSWrongRegion"
          /\ head.outcome \notin {"ok", "moved"} => head.result = "S3Error"
          /\ Len(head.reqs) = 1
    /\ head.outcome = "moved" => head.size = "unset"
    /\ put.result = "AWSWrongRegion" =>
          /\ put.pc = "returned"
          /\ Len(put.reqs) = 1
          /\ put.reqs[1].api = "CreateMultipartUpload"

\* S3GetSize and a multipart S3UploadOverwrite were both redirected
C27_Witness ==
    /\ head.pc = "returned"
    /\ head.outcome = "moved"
    /\ head.result = "AWSWrongRegion"
    /\ put.api = "S3UploadOverwrite"
    /\ put.result = "AWSWrongRegion"

(***************************************************************************)
(* Properties of S3DownloadRange.                                          *)
(***************************************************************************)
\* the requests of the get, by kind
GetRequestsOf(api) == SelectSeq(get.reqs, LAMBDA r : r.api = api)

\* C34: S3DownloadRange fetches a range of one part with one blocking
\* GetObject and no GetObjectAsync; for a range of several parts it sends no
\* GetObject and one GetObjectAsync per part, in the order of the parts, and
\* returns success only when as many callbacks as there are parts have
\* reported success and none is still to come.
C34_OneRequestPerPart ==
    get.api = "S3DownloadRange" =>
        /\ Len(get.parts) = 1 =>
               /\ get.reqs = <<PrepareObjectRequest("GetObject", get.parts[1])>>
               /\ get.pending = {}
        /\ Len(get.parts) > 1 =>
               /\ GetRequestsOf("GetObject") = <<>>
               /\ Len(get.reqs) = get.i
               /\ get.i <= Len(get.parts)
               /\ \A k \in 1..Len(get.reqs) :
                      get.reqs[k] =
                          PrepareObjectRequest("GetObjectAsync", get.parts[k])
               /\ get.finished + Cardinality(get.pending) <= get.i
               /\ (get.pc = "returned" /\ get.result = "ok") =>
                      /\ Len(get.reqs) = Len(get.parts)
                      /\ get.finished = Len(get.parts)
                      /\ get.pending = {}

\* a S3DownloadRange of three parts has returned success
C34_Witness ==
    /\ get.api = "S3DownloadRange"
    /\ Len(get.parts) = 3
    /\ get.pc = "returned"
    /\ get.result = "ok"
    /\ Len(GetRequestsOf("GetObjectAsync")) = 3

(***************************************************************************)
(* Termination of put and get.                                             *)
(***************************************************************************)
\* the call has returned to its caller, or a fatal error ended it
PutOver == put.pc \in {"returned", "aborted"}
GetOver == get.pc \in {"returned", "aborted"}

\* C35: when the threads are scheduled fairly and every remote call is
\* answered, a put and a get that were called, by whichever entry point,
\* come to return or to fail, and a waiter that parked does not stay
\* parked while the call goes on.
C35_EveryCallEnds ==
    /\ (put.pc # "idle") ~> PutOver
    /\ (get.pc # "idle") ~> GetOver
    /\ (put.waiter = "parked") ~> (put.waiter # "parked" \/ PutOver)
    /\ (put.sema.waiter = "parked") ~>
           (put.sema.waiter # "parked" \/ PutOver)
    /\ (get.waiter = "parked") ~> (get.waiter # "parked" \/ GetOver)
    /\ (get.sema.waiter = "parked") ~>
           (get.sema.waiter # "parked" \/ GetOver)

\* S3DownloadRange has sent its three requests and parked; two callbacks
\* have come and the third is in flight
C35_Witness ==
    /\ get.api = "S3DownloadRange"
    /\ get.pc = "GetObjectAsync"
    /\ get.waiter = "parked"
    /\ get.finished = 2
    /\ Cardinality(get.pending) = 1

(***************************************************************************)
(* Properties of Finish.                                                   *)
(***************************************************************************)
\* the queue changes at its ends only: a registration adds at the back,
\* Finish takes the head away, and only once the head's future has resolved
QueueStep ==
    og_ops' # og_ops =>
        \/ /\ og_pc = "idle"
           /\ og_ops' = Append(og_ops, [label |-> og_n + 1,
                                        returns |-> og_ops'[Len(og_ops')].returns])
        \/ /\ og_pc = "draining"
           /\ og_ops # <<>>
           /\ og_ops' = Tail(og_ops)
           /\ og_fut[Head(og_ops).label].state \in {"ok", "err"}

\* Finish returns from an empty queue only
ReturnStep == (og_pc = "draining" /\ og_pc' = "finished") => og_ops = <<>>

\* C36: Finish waits for the future of every registered operation, also
\* after one of them failed; it takes entries from the head of the queue
\* only and leaves the queue empty; and when every future resolves, a Finish
\* that was called returns.
C36_FinishDrainsEverything ==
    /\ [][QueueStep /\ ReturnStep]_vars
    /\ [](og_pc = "finished" =>
             /\ og_ops = <<>>
             /\ \A l \in Registered : og_fut[l].state \in {"ok", "err"})
    /\ (og_pc = "draining") ~> (og_pc = "finished")

\* the first future failed before the others resolved; Finish has waited
\* for the other two and returned
C36_Witness ==
    /\ og_pc = "finished"
    /\ og_n = 3
    /\ og_fut[1].state = "err"
    /\ og_order = <<1, 3, 2>>
    /\ og_ops = <<>>
    /\ og_result # NoError

(***************************************************************************)
(* Properties of the pages of a listing.                                   *)
(***************************************************************************)
\* C37: the first ListObjectsV2 request carries no continuation token;
\* every later one carries the token of the page just received, which was
\* truncated; a truncated page with an empty token fails an assertion; no
\* request follows a page that is not truncated, and the future that was
\* started ends once the remote store sends such a page.
C37_PagesFollowTokens ==
    /\ [](\A n \in 1..Len(lst.reqs) :
             IF n = 1 THEN lst.reqs[n].token = EmptyString
             ELSE /\ n - 1 <= Len(lst.pages)
                  /\ lst.pages[n - 1].truncated
                  /\ lst.reqs[n].token = lst.pages[n - 1].next
                  /\ lst.reqs[n].token # EmptyString)
    /\ [](Len(lst.reqs) <= Len(lst.pages) + 1)
    /\ [](\A p \in 1..Len(lst.pages) :
             (lst.pages[p].truncated /\ lst.pages[p].next = EmptyString) =>
                 (lst.pc = "aborted" /\ p = Len(lst.pages)
                     /\ Len(lst.reqs) = p))
    /\ [](\A p \in 1..Len(lst.pages) :
             ~lst.pages[p].truncated =>
                 (p = Len(lst.pages) /\ Len(lst.reqs) = p
                     /\ lst.pc \in {"returned", "aborted"}))
    /\ (lst.pc = "ListFuture") ~> (lst.pc \in {"returned", "aborted"})

\* three requests were sent, the second and the third with the tokens of
\* the first and the second page, and the third page was the last
C37_Witness ==
    /\ lst.pc = "returned"
    /\ Len(lst.reqs) = 3
    /\ lst.reqs[2].token = Token(1)
    /\ lst.reqs[3].token = Token(2)
    /\ lst.pages[3].next = Token(3)

(***************************************************************************)
(* Properties of AddReturnsOp when the future fails.                       *)
(***************************************************************************)
\* C38: the error of the future of an AddReturnsOp operation is the error
\* the group has for that operation, the one Finish returns when it is the
\* first; and a continuation that takes a value is called only with the
\* value its future resolved to.
C38_ErrorPassedOnNoOtherValue ==
    /\ \A l \in Registered :
           og_fut[l].state = "err" => FutureGet(l) = FutureError(l)
    /\ (og_pc = "finished" /\ og_n >= 1 /\ og_fut[1].state = "err") =>
           og_result = FutureError(1)
    /\ \A i \in 1..Len(og_ran) :
           og_ran[i].arg # NoArg =>
               /\ og_fut[og_ran[i].label].state = "ok"
               /\ og_ran[i].arg = og_fut[og_ran[i].label].value

(***************************************************************************)
(* Properties of initialisation.                                           *)
(***************************************************************************)
\* C39: a public operation that acts while library_init is false (on the
\* caller's thread or in its future) sends no remote call and does not
\* touch async_s3_client: if it has anything to do, the assertion on
\* library_init stops it.
C39_NothingBeforeS3Init ==
    \A i \in 1..Len(lib.calls) :
        (lib.calls[i].end # "future" /\ ~lib.calls[i].library_init) =>
            /\ lib.calls[i].end \in {"asserted", "returned"}
            /\ ~lib.calls[i].touched

(***************************************************************************)
(* Properties of the name-server client.                                   *)
(***************************************************************************)
\* C40: in Create and in Update the host with ID 0, and no other, sends
\* the HTTP request; once the call is over, the communicator was notified
\* exactly when the request (or the building of its URL) failed; the call
\* returned that failure; and on any other host it returned success without
\* a request.
C40_OnlyHostZeroAsks ==
    \A i \in 1..Len(ns) :
        /\ (ns[i].req # NoRequest) = (ns[i].id = 0)
        /\ ns[i].pc = "returned" =>
              /\ ns[i].notified = (ns[i].id = 0 /\ ns[i].res # "ok")
              /\ ns[i].returned = ns[i].res
              /\ ns[i].id # 0 => (ns[i].returned = "ok" /\ ~ns[i].notified)

====
